---- MODULE Spec2Model ----
(***************************************************************************)
(* Authorization and session-security core of the client content portal:   *)
(* the refresh-token store, the client-route permission gate, the public   *)
(* content gate and the login flow, each translated from its source.       *)
(*                                                                         *)
(* Time is the value of Date.now() in milliseconds.  A timestamp column    *)
(* that is SQL NULL is NullTime.  One module holds several specifications, *)
(* each over the same variables; a specification leaves the tables it does *)
(* not exercise unchanged.                                                 *)
(***************************************************************************)
EXTENDS Integers, Sequences, FiniteSets, TLC

\* ------------------------------------------------------------------------
\* Bounds of the model
\* ------------------------------------------------------------------------
MaxTokens == 3      \* refresh tokens generated in one behaviour
MaxTicks == 1       \* clock advances in one behaviour
MaxCalls == 2       \* rotateRefreshToken calls in flight / completed
MaxItemIds == 2     \* collection item ids generated in one behaviour
MaxReorderLen == 2  \* longest item_ids array of a reorder request
MaxPublishes == 1   \* publish_history entries per site
MaxKeys == 3        \* API keys generated in one behaviour
MaxFails == 5       \* failed logins of a client counted in a row

\* ------------------------------------------------------------------------
\* Principals (rows of admin_users and clients) and common values
\* ------------------------------------------------------------------------
NullTime == 0 - 1
NullId == "null"

AdminIds == {"a1"}
ClientIds == {"c1", "c2"}
UserIds == AdminIds \cup ClientIds

UserTypeOf(id) == IF id \in AdminIds THEN "admin" ELSE "client"

\* ------------------------------------------------------------------------
\* Session and token management
\* ------------------------------------------------------------------------
REFRESH_TOKEN_EXPIRY == 7 * 24 * 60 * 60

VARIABLES
    now,              \* Date.now()
    ticks,            \* clock advances so far
    refresh_tokens,   \* table refresh_tokens: a set of rows
    tokenSeq,         \* clear tokens generated so far; token n is the n-th
    rot,              \* rotateRefreshToken calls: position, argument, row read, result
    resp,             \* the last response / result returned to a caller
    rotated,          \* history: clear tokens a completed rotation was given and accepted
    justRotated,      \* history: the rotation the last step completed, if any
    admin_users,      \* table admin_users: id -> row
    clients,          \* table clients: id -> row
    sites,            \* table sites: id -> row
    reassigned,       \* history: sites whose client_id an update has changed
    site_permissions, \* table site_permissions: site_id -> row, absent when there is none
    collections,      \* table collections: id -> row
    collection_items, \* table collection_items: a set of rows
    itemSeq,          \* collection item ids generated so far
    site_content,     \* per site: business info, a text element, an image slot,
                      \* and the number of publish_history entries
    keySeq,           \* API keys generated so far; key n is the n-th
    retiredKeys,      \* history: <<site, key>> for every key a regeneration replaced
    auth_users,       \* the identity provider's users: id -> credential
    security_logs,    \* table security_logs: the set of events written
    loginHits,        \* login rate limiter: key -> times of the requests it counted
    streak,           \* history: per client, failed logins since the last success
    incr              \* incrementFailedLoginAttempts calls under way: the value read

tokenVars == <<refresh_tokens, tokenSeq, rot, rotated, justRotated>>
acctVars == <<admin_users, clients>>
siteVars == <<sites, reassigned>>
contentVars == <<site_permissions, collections, collection_items, itemSeq, site_content>>
loginVars == <<loginHits, streak, incr>>
auxVars == <<keySeq, retiredKeys, auth_users, security_logs, loginVars>>
dbVars == <<acctVars, siteVars, contentVars, auxVars>>

vars == <<now, ticks, refresh_tokens, tokenSeq, rot, resp, rotated, justRotated,
          admin_users, clients, sites, reassigned,
          site_permissions, collections, collection_items, itemSeq, site_content,
          keySeq, retiredKeys, auth_users, security_logs, loginHits, streak, incr>>

Calls == 1 .. MaxCalls
TokenValues == 1 .. MaxTokens

hashToken(token) == <<"sha256", token>>

NoRow == [id |-> 0]
Invalid == [ok |-> FALSE]

\* PostgREST .single(): the row when exactly one matches, an error otherwise
Single(rows) == IF Cardinality(rows) = 1 THEN CHOOSE r \in rows : TRUE ELSE NoRow

TokenRowByHash(tbl, h) == Single({r \in tbl : r.token_hash = h})

\* createRefreshToken: the row inserted for clear token `token`
NewTokenRow(token, userId, userType, t) ==
    [id |-> token,
     user_id |-> userId,
     user_type |-> userType,
     token_hash |-> hashToken(token),
     expires_at |-> t + REFRESH_TOKEN_EXPIRY * 1000,
     revoked_at |-> NullTime]

createRefreshToken(tbl, token, userId, userType, t) ==
    tbl \cup {NewTokenRow(token, userId, userType, t)}

\* validateRefreshToken: what it returns.  Its only write touches last_used_at,
\* a column no decision reads and the rows here do not carry.
validateRefreshToken(tbl, token, t) ==
    LET rec == TokenRowByHash(tbl, hashToken(token)) IN
    IF rec = NoRow THEN Invalid
    ELSE IF rec.revoked_at # NullTime THEN Invalid
    ELSE IF rec.expires_at < t THEN Invalid
    ELSE [ok |-> TRUE, userId |-> rec.user_id, userType |-> rec.user_type]

\* rotateRefreshToken, first storage step: read the row and validate it
RotateRead(tbl, oldToken, t) ==
    LET rec == TokenRowByHash(tbl, hashToken(oldToken)) IN
    IF rec = NoRow \/ rec.revoked_at # NullTime THEN NoRow
    ELSE IF rec.expires_at < t THEN NoRow
    ELSE rec

\* rotateRefreshToken, second storage step: update ... set revoked_at where id = rec.id
RevokeRowNoop(tbl, id, t) == tbl
RevokeRow(tbl, id, t) ==
    {IF r.id = id THEN [r EXCEPT !.revoked_at = t] ELSE r : r \in tbl}

\* revokeRefreshToken
revokeRefreshToken(tbl, token, t) ==
    {IF r.token_hash = hashToken(token) THEN [r EXCEPT !.revoked_at = t] ELSE r
     : r \in tbl}

\* a revocation that reaches the newest unrevoked token of the user only
revokeNewestUserToken(tbl, userId, userType, t) ==
    LET mine == {r \in tbl : r.user_id = userId /\ r.user_type = userType
                                /\ r.revoked_at = NullTime} IN
    {IF r \in mine /\ (\A o \in mine : o.id <= r.id)
     THEN [r EXCEPT !.revoked_at = t] ELSE r : r \in tbl}

\* revokeAllUserTokens
revokeAllUserTokens(tbl, userId, userType, t) ==
    {IF r.user_id = userId /\ r.user_type = userType /\ r.revoked_at = NullTime
     THEN [r EXCEPT !.revoked_at = t] ELSE r : r \in tbl}

\* cleanupExpiredTokens
cleanupExpiredTokens(tbl, t) == {r \in tbl : ~(r.expires_at < t)}

\* ------------------------------------------------------------------------
\* Accounts and sites
\* ------------------------------------------------------------------------
SiteIds == {"s1", "s2"}
\* slugs are strings of characters
SlugOf(s) == IF s = "s1" THEN <<"s", "-", "1">> ELSE <<"s", "-", "2">>
NoSuchSlug == <<"n", "o">>
\* the API key a site is created with
FirstKeyOf(s) == IF s = "s1" THEN 1 ELSE 2
Slugs == {SlugOf(s) : s \in SiteIds} \cup {NoSuchSlug}
NoIdentity == "anonymous"       \* neither bearer token nor cookie yields a user
StrangerId == "x1"              \* an authenticated id in neither table
Identities == UserIds \cup {NoIdentity, StrangerId}

AccountsInit ==
    /\ admin_users = [a \in AdminIds |-> [is_active |-> TRUE, role |-> "admin"]]
    /\ clients = [c \in ClientIds |->
                    [is_active |-> TRUE, failed_login_attempts |-> 0,
                     locked_until |-> NullTime]]

\* ------------------------------------------------------------------------
\* Passwords: strings of characters
\* ------------------------------------------------------------------------
LowerSeq == <<"a", "b", "c", "d", "e", "f", "g", "h", "i", "j", "k", "l", "m",
              "n", "o", "p", "q", "r", "s", "t", "u", "v", "w", "x", "y", "z">>
UpperSeq == <<"A", "B", "C", "D", "E", "F", "G", "H", "I", "J", "K", "L", "M",
              "N", "O", "P", "Q", "R", "S", "T", "U", "V", "W", "X", "Y", "Z">>
DigitSeq == <<"0", "1", "2", "3", "4", "5", "6", "7", "8", "9", "0">>
SpecialChars == {"!", "@", "#", "$", "%", "^", "&", "*", "(", ")", "_", "+", "-", "=",
                 "[", "]", "{", "}", ";", "'", ":", "\"", "\\", "|", ",", ".", "<",
                 ">", "/", "?"}
Range(f) == {f[i] : i \in DOMAIN f}
LowerChars == Range(LowerSeq)
UpperChars == Range(UpperSeq)
DigitChars == Range(DigitSeq)
LowerOf == [ch \in UpperChars |-> LowerSeq[CHOOSE i \in DOMAIN UpperSeq : UpperSeq[i] = ch]]
ToLower(ch) == IF ch \in UpperChars THEN LowerOf[ch] ELSE ch
LowerCased(str) == [i \in DOMAIN str |-> ToLower(str[i])]
Contains(str, sub) ==
    \E i \in 0 .. (Len(str) - Len(sub)) : SubSeq(str, i + 1, i + Len(sub)) = sub
\* the runs of three neighbours of an alphabet, and whether a string holds one
RunsOf(alphabet) == {SubSeq(alphabet, j, j + 2) : j \in 1 .. (Len(alphabet) - 2)}
DigitRuns == RunsOf(DigitSeq)
LetterRuns == RunsOf(LowerSeq)
HasRun(str, runs) == \E i \in 1 .. (Len(str) - 2) : SubSeq(str, i, i + 2) \in runs

HasCharClasses(password) ==
    /\ \E i \in DOMAIN password : password[i] \in LowerChars
    /\ \E i \in DOMAIN password : password[i] \in UpperChars
    /\ \E i \in DOMAIN password : password[i] \in DigitChars
    /\ \E i \in DOMAIN password : password[i] \in SpecialChars

\* passwordChangeSchema
passwordChangeSchema(current_password, new_password) ==
    /\ Len(current_password) >= 1
    /\ Len(new_password) >= 12
    /\ Len(new_password) <= 128
    /\ HasCharClasses(new_password)

\* validatePassword(password, email).valid; the common passwords it also
\* rejects are all shorter than 12 characters, and so rejected for their length
validatePassword(password, username) ==
    /\ Len(password) >= 12
    /\ Len(password) <= 128
    /\ HasCharClasses(password)
    /\ ~(Len(username) > 0 /\ Contains(LowerCased(password), LowerCased(username)))
    /\ ~\E i \in 1 .. (Len(password) - 2) :
            password[i] = password[i + 1] /\ password[i + 1] = password[i + 2]
    /\ ~HasRun(password, DigitRuns)
    /\ ~HasRun(LowerCased(password), LetterRuns)

\* the local part of the user's email address
EmailUserOf(u) == IF u = "a1" THEN <<"a", "1">>
                  ELSE IF u = "c1" THEN <<"c", "1">> ELSE <<"c", "2">>

FirstPassword == <<"X", "y", "7", "!", "X", "y", "7", "!", "X", "y", "7", "!">>
SecondPassword == <<"Q", "w", "8", "#", "Q", "w", "8", "#", "Q", "w", "8", "#">>
ShortPassword == <<"A", "b", "1", "!">>
RepeatingPassword == <<"Z", "z", "z", "z", "5", "?", "Z", "z", "z", "z", "5", "?">>

Ips == {"ip1", "ip2"}
\* createRateLimitKey(ip, email), the email standing for its account
LoginKeys == Ips \X UserIds

\* one key per site so far, none replaced, nothing logged, no login tried
NoIncrement == [pc |-> "idle"]

AuxInit ==
    /\ keySeq = Cardinality(SiteIds)
    /\ retiredKeys = {}
    /\ auth_users = [u \in UserIds |-> [password |-> FirstPassword]]
    /\ security_logs = {}
    /\ loginHits = [k \in LoginKeys |-> <<>>]
    /\ streak = [c \in ClientIds |-> 0]
    /\ incr = [p \in Calls |-> NoIncrement]

SitesInit ==
    /\ sites = [s \in SiteIds |->
                  [slug |-> SlugOf(s), client_id |-> NullId, status |-> "draft",
                   api_key |-> FirstKeyOf(s)]]
    /\ reassigned = {}
    /\ AuxInit

\* ------------------------------------------------------------------------
\* Site permissions, collections and their items
\* ------------------------------------------------------------------------
PermFlags == {"can_edit_business_info", "can_edit_text", "can_edit_images",
              "can_edit_collections", "can_add_collection_items",
              "can_delete_collection_items", "can_reorder_collection_items",
              "can_publish"}

\* the column defaults of site_permissions
DefaultPermissions ==
    [f \in PermFlags |-> f # "can_delete_collection_items"]

CollectionIds == {"k1", "k2"}
CollectionSite(k) == IF k = "k1" THEN "s1" ELSE "s2"
CollectionKeys == {"menu", "no-such-collection"}
ItemIds == 1 .. MaxItemIds

\* one collection "menu" per site, without a max_items limit (NULL and 0 are
\* both "no limit" to createCollectionItem); the second holds one item
ContentValues == {"v0", "v1"}

CollectionsInit ==
    /\ site_content = [s \in SiteIds |->
                         [business_info |-> "v0", text |-> "v0", image |-> "v0",
                          versions |-> 0]]
    /\ collections = [k \in CollectionIds |->
                        [site_id |-> CollectionSite(k), collection_key |-> "menu",
                         can_add |-> TRUE, can_delete |-> TRUE, can_reorder |-> TRUE,
                         max_items |-> 0]]
    /\ collection_items = {[id |-> 1, collection_id |-> "k2", sort_order |-> 0,
                            is_visible |-> TRUE]}
    /\ itemSeq = 1

\* every site has the permissions row the insert trigger gave it
ContentInit ==
    /\ site_permissions = [s \in SiteIds |-> DefaultPermissions]
    /\ CollectionsInit

\* a lookup that falls back to the column defaults
getSitePermissionsOpen(tbl, siteId, lookupOk) ==
    IF ~lookupOk \/ siteId \notin DOMAIN tbl THEN DefaultPermissions ELSE tbl[siteId]

\* getSitePermissions: the row of the site, or every flag false when the lookup
\* finds none or fails
getSitePermissions(tbl, siteId, lookupOk) ==
    IF ~lookupOk \/ siteId \notin DOMAIN tbl
    THEN [f \in PermFlags |-> FALSE]
    ELSE tbl[siteId]

\* getCollectionByKey: the collection of the site with that key, NullId if none
getCollectionByKey(tbl, siteId, key) ==
    LET hit == {k \in DOMAIN tbl :
                    tbl[k].site_id = siteId /\ tbl[k].collection_key = key} IN
    IF Cardinality(hit) = 1 THEN CHOOSE k \in hit : TRUE ELSE NullId

\* getCollectionItem: looked up by id alone
getCollectionItem(items, id) == Single({i \in items : i.id = id})

ItemsOf(items, collectionId) == {i \in items : i.collection_id = collectionId}

\* the collection-level switch a route tests after the site-level one
IgnoreCollectionFlag(collection, flag) == TRUE
CollectionAllows(collection, flag) == collection[flag]

\* errors.ts: an ApiError as it reaches errorResponse
Err(status, message) == [ok |-> FALSE, status |-> status, error |-> message]

\* a lookup that consults clients before admin_users
verifyAuthClientsFirst(admins, cls, identity, t) ==
    IF identity = NoIdentity THEN Err(401, "Invalid or expired session")
    ELSE IF identity \in DOMAIN cls
    THEN IF ~cls[identity].is_active THEN Err(403, "Account is deactivated")
         ELSE IF cls[identity].locked_until # NullTime /\ cls[identity].locked_until > t
         THEN Err(403, "Account is temporarily locked")
         ELSE [ok |-> TRUE, id |-> identity, type |-> "client", role |-> NullId]
    ELSE IF identity \in DOMAIN admins
    THEN IF ~admins[identity].is_active THEN Err(403, "Account is deactivated")
         ELSE [ok |-> TRUE, id |-> identity, type |-> "admin",
               role |-> admins[identity].role]
    ELSE Err(401, "User not found")

\* verifyAuth: the identity the identity provider returned, looked up in
\* admin_users first and then in clients
verifyAuth(admins, cls, identity, t) ==
    IF identity = NoIdentity THEN Err(401, "Invalid or expired session")
    ELSE IF identity \in DOMAIN admins
    THEN IF ~admins[identity].is_active THEN Err(403, "Account is deactivated")
         ELSE [ok |-> TRUE, id |-> identity, type |-> "admin",
               role |-> admins[identity].role]
    ELSE IF identity \in DOMAIN cls
    THEN IF ~cls[identity].is_active THEN Err(403, "Account is deactivated")
         ELSE IF cls[identity].locked_until # NullTime /\ cls[identity].locked_until > t
         THEN Err(403, "Account is temporarily locked")
         ELSE [ok |-> TRUE, id |-> identity, type |-> "client", role |-> NullId]
    ELSE Err(401, "User not found")

\* select id, client_id from sites where slug = siteSlug, .single()
SiteBySlug(tbl, slug) ==
    LET hit == {s \in DOMAIN tbl : tbl[s].slug = slug} IN
    IF Cardinality(hit) = 1 THEN CHOOSE s \in hit : TRUE ELSE NullId

\* the ownership test of verifyClientSiteAccess
OwnsAnySite(clientId, user) == TRUE
OwnsSite(clientId, user) == clientId = user.id

verifyClientSiteAccess(admins, cls, tbl, identity, slug, t) ==
    LET user == verifyAuth(admins, cls, identity, t)
        site == SiteBySlug(tbl, slug) IN
    IF ~user.ok THEN user
    ELSE IF site = NullId THEN Err(403, "Site not found")
    ELSE IF user.type = "admin" THEN [ok |-> TRUE, user |-> user, siteId |-> site]
    ELSE IF ~OwnsSite(tbl[site].client_id, user)
    THEN Err(403, "Access denied to this site")
    ELSE [ok |-> TRUE, user |-> user, siteId |-> site]

\* updateSite({client_id}): the admin site update that links or unlinks a client
AssignClient(s, c) ==
    /\ sites' = [sites EXCEPT ![s].client_id = c]
    /\ reassigned' = IF sites[s].client_id # c THEN reassigned \cup {s} ELSE reassigned
    /\ resp' = [op |-> "update_site", site |-> s]
    /\ UNCHANGED <<now, ticks, tokenVars, auxVars, acctVars, contentVars>>

\* deactivateClient / reactivateClient
SetClientActive(c, b) ==
    /\ clients' = [clients EXCEPT ![c].is_active = b]
    /\ resp' = [op |-> "update_client", client |-> c]
    /\ UNCHANGED <<now, ticks, tokenVars, auxVars, admin_users, siteVars, contentVars>>

\* a call of verifyClientSiteAccess, as every client route makes first
CallVerifyClientSiteAccess(identity, slug) ==
    /\ resp' = [op |-> "site_access", actor |-> identity, slug |-> slug,
                result |-> verifyClientSiteAccess(admin_users, clients, sites,
                                                  identity, slug, now)]
    /\ UNCHANGED <<now, ticks, tokenVars, dbVars>>


NoRotation == [old |-> 0, new |-> 0, userId |-> NullId, userType |-> NullId]
IdleCall == [pc |-> "idle", oldToken |-> 0, rec |-> NoRow, result |-> 0]

\* no token issued, no rotation under way, the clock at its origin
TokensIdle ==
    /\ now = 0
    /\ ticks = 0
    /\ refresh_tokens = {}
    /\ tokenSeq = 0
    /\ rot = [c \in Calls |-> IdleCall]
    /\ resp = [op |-> "none"]
    /\ rotated = {}
    /\ justRotated = NoRotation

TokenInit ==
    /\ TokensIdle
    /\ AccountsInit
    /\ SitesInit
    /\ ContentInit

\* A login issues a refresh token (createRefreshToken as called by the login route)
IssueToken(u) ==
    /\ tokenSeq < MaxTokens
    /\ tokenSeq' = tokenSeq + 1
    /\ refresh_tokens' =
         createRefreshToken(refresh_tokens, tokenSeq + 1, u, UserTypeOf(u), now)
    /\ justRotated' = NoRotation
    /\ UNCHANGED <<now, ticks, rot, resp, rotated, dbVars>>

Validate(token) ==
    /\ resp' = [op |-> "validate", token |-> token,
                result |-> validateRefreshToken(refresh_tokens, token, now)]
    /\ justRotated' = NoRotation
    /\ UNCHANGED <<now, ticks, refresh_tokens, tokenSeq, rot, rotated, dbVars>>

\* rotateRefreshToken run without interleaving: read, revoke, insert
Rotate(token) ==
    LET rec == RotateRead(refresh_tokens, token, now) IN
    IF rec = NoRow
    THEN /\ resp' = [op |-> "rotate", token |-> token, result |-> Invalid]
         /\ justRotated' = NoRotation
         /\ UNCHANGED <<now, ticks, refresh_tokens, tokenSeq, rot, rotated, dbVars>>
    ELSE /\ tokenSeq < MaxTokens
         /\ tokenSeq' = tokenSeq + 1
         /\ refresh_tokens' =
              createRefreshToken(RevokeRow(refresh_tokens, rec.id, now),
                                 tokenSeq + 1, rec.user_id, rec.user_type, now)
         /\ resp' = [op |-> "rotate", token |-> token,
                     result |-> [ok |-> TRUE, token |-> tokenSeq + 1,
                                 userId |-> rec.user_id, userType |-> rec.user_type]]
         /\ rotated' = rotated \cup {token}
         /\ justRotated' = [old |-> token, new |-> tokenSeq + 1,
                            userId |-> rec.user_id, userType |-> rec.user_type]
         /\ UNCHANGED <<now, ticks, rot, dbVars>>

Revoke(token) ==
    /\ refresh_tokens' = revokeRefreshToken(refresh_tokens, token, now)
    /\ justRotated' = NoRotation
    /\ UNCHANGED <<now, ticks, tokenSeq, rot, resp, rotated, dbVars>>

RevokeAll(u) ==
    /\ refresh_tokens' = revokeAllUserTokens(refresh_tokens, u, UserTypeOf(u), now)
    /\ justRotated' = NoRotation
    /\ UNCHANGED <<now, ticks, tokenSeq, rot, resp, rotated, dbVars>>

Cleanup ==
    /\ refresh_tokens' = cleanupExpiredTokens(refresh_tokens, now)
    /\ justRotated' = NoRotation
    /\ UNCHANGED <<now, ticks, tokenSeq, rot, resp, rotated, dbVars>>

\* The clock advances to the instant a token issued now expires, or just past it
TokenTick ==
    /\ ticks < MaxTicks
    /\ \E d \in {REFRESH_TOKEN_EXPIRY * 1000, REFRESH_TOKEN_EXPIRY * 1000 + 1} :
          now' = now + d
    /\ ticks' = ticks + 1
    /\ justRotated' = NoRotation
    /\ UNCHANGED <<refresh_tokens, tokenSeq, rot, resp, rotated, dbVars>>


TokenNext ==
    \/ \E u \in {"a1", "c1"} : IssueToken(u)
    \/ \E t \in TokenValues : Validate(t)
    \/ \E t \in TokenValues : Rotate(t)
    \/ \E t \in TokenValues : Revoke(t)
    \/ \E u \in {"a1", "c1"} : RevokeAll(u)
    \/ Cleanup
    \/ TokenTick

SpecTokens == TokenInit /\ [][TokenNext]_vars

\* ------------------------------------------------------------------------
\* rotateRefreshToken under concurrency: its three storage statements are
\* separate awaits, so the statements of two calls interleave.
\* ------------------------------------------------------------------------
RotateBegin(c, token) ==
    /\ rot[c].pc = "idle"
    /\ LET rec == RotateRead(refresh_tokens, token, now) IN
         rot' = [rot EXCEPT ![c] =
                   IF rec = NoRow
                   THEN [pc |-> "done", oldToken |-> token, rec |-> NoRow, result |-> 0]
                   ELSE [pc |-> "revoke", oldToken |-> token, rec |-> rec, result |-> 0]]
    /\ UNCHANGED <<now, ticks, refresh_tokens, tokenSeq, resp, rotated, justRotated, dbVars>>

RotateRevoke(c) ==
    /\ rot[c].pc = "revoke"
    /\ refresh_tokens' = RevokeRow(refresh_tokens, rot[c].rec.id, now)
    /\ rot' = [rot EXCEPT ![c].pc = "insert"]
    /\ UNCHANGED <<now, ticks, tokenSeq, resp, rotated, justRotated, dbVars>>

RotateInsert(c) ==
    /\ rot[c].pc = "insert"
    /\ tokenSeq < MaxTokens
    /\ tokenSeq' = tokenSeq + 1
    /\ refresh_tokens' =
         createRefreshToken(refresh_tokens, tokenSeq + 1,
                            rot[c].rec.user_id, rot[c].rec.user_type, now)
    /\ rot' = [rot EXCEPT ![c].pc = "done", ![c].result = tokenSeq + 1]
    /\ UNCHANGED <<now, ticks, resp, rotated, justRotated, dbVars>>

ConcNext ==
    \/ \E u \in {"a1", "c1"} : IssueToken(u)
    \/ \E c \in Calls, t \in TokenValues : RotateBegin(c, t)
    \/ \E c \in Calls : RotateRevoke(c)
    \/ \E c \in Calls : RotateInsert(c)
    \/ \E u \in {"a1", "c1"} : RevokeAll(u)
    \/ TokenTick

SpecRotateConc == TokenInit /\ [][ConcNext]_vars

\* ------------------------------------------------------------------------
\* Claims on the token store
\* ------------------------------------------------------------------------

\* C1: of the rotateRefreshToken calls given the same clear token, at most one
\* returns a new token, in every interleaving of their storage steps; the
\* others return invalid.
C1_AtMostOneRotationSucceeds ==
    \A c1, c2 \in Calls :
        (c1 # c2 /\ rot[c1].pc = "done" /\ rot[c2].pc = "done"
            /\ rot[c1].oldToken = rot[c2].oldToken)
        => ~(rot[c1].result # 0 /\ rot[c2].result # 0)

\* C2: run sequentially, a successful rotation of T returns a token that
\* validates to T's principal id and kind, and from then on T is invalid for
\* validateRefreshToken and for rotateRefreshToken, whatever follows.
C2_RotationSupersedesOldToken ==
    /\ justRotated # NoRotation =>
         validateRefreshToken(refresh_tokens, justRotated.new, now)
           = [ok |-> TRUE, userId |-> justRotated.userId,
              userType |-> justRotated.userType]
    /\ \A t \in rotated :
         /\ ~validateRefreshToken(refresh_tokens, t, now).ok
         /\ RotateRead(refresh_tokens, t, now) = NoRow
    /\ (resp.op = "validate" /\ resp.token \in rotated) => ~resp.result.ok

\* a rotated token was presented again after further operations, and refused
C2_Witness ==
    /\ \E t \in rotated : \E r \in refresh_tokens : r.id = t
    /\ ticks > 0
    /\ resp.op = "validate" /\ resp.token \in rotated

\* ------------------------------------------------------------------------
\* Client routes on collection items
\* ------------------------------------------------------------------------
RateLimitError == Err(429, "Too many requests. Please try again later.")
\* validateInput throws a plain Error, which errorResponse turns into this
InternalError == Err(500, "An unexpected error occurred")

\* what a route hands back: the response and the table it leaves behind
Refuse(e, items) ==
    [status |-> e.status, error |-> e.error, items |-> items, item |-> NoRow]
Done(status, items, item) ==
    [status |-> status, error |-> "", items |-> items, item |-> item]

ItemReply(op, identity, slug, key, rl, lookupOk, out) ==
    [op |-> op, actor |-> identity, slug |-> slug, key |-> key, limited |-> ~rl,
     lookupFailed |-> ~lookupOk,
     status |-> out.status, error |-> out.error, item |-> out.item]

MaxOf(S) == CHOOSE m \in S : \A x \in S : x <= m

\* createCollectionItem: refuses a full collection, else appends at the end
createCollectionItem(items, colls, collectionId, id) ==
    LET mine == ItemsOf(items, collectionId)
        last == IF mine = {} THEN 0 - 1 ELSE MaxOf({i.sort_order : i \in mine})
        row == [id |-> id, collection_id |-> collectionId, sort_order |-> last + 1,
                is_visible |-> TRUE] IN
    IF colls[collectionId].max_items # 0 /\ Cardinality(mine) >= colls[collectionId].max_items
    THEN Refuse(Err(400, "Collection is at maximum capacity"), items)
    ELSE Done(201, items \cup {row}, row)

\* POST .../collections/[key]/items
PostItem(identity, slug, key, rl, lookupOk, bodyOk) ==
    LET acc == verifyClientSiteAccess(admin_users, clients, sites, identity, slug, now)
        perms == getSitePermissions(site_permissions, acc.siteId, lookupOk)
        k == getCollectionByKey(collections, acc.siteId, key) IN
    IF ~acc.ok THEN Refuse(acc, collection_items)
    ELSE IF ~rl THEN Refuse(RateLimitError, collection_items)
    ELSE IF ~perms.can_add_collection_items
    THEN Refuse(Err(403, "You do not have permission to add collection items"),
                collection_items)
    ELSE IF k = NullId THEN Refuse(Err(404, "Collection not found"), collection_items)
    ELSE IF ~CollectionAllows(collections[k], "can_add")
    THEN Refuse(Err(403, "Adding items to this collection is not allowed"),
                collection_items)
    ELSE IF ~bodyOk THEN Refuse(InternalError, collection_items)
    ELSE createCollectionItem(collection_items, collections, k, itemSeq + 1)

CreateItem(identity, slug, key, rl, lookupOk, bodyOk) ==
    /\ itemSeq < MaxItemIds
    /\ LET out == PostItem(identity, slug, key, rl, lookupOk, bodyOk) IN
        /\ collection_items' = out.items
        /\ itemSeq' = IF out.status = 201 THEN itemSeq + 1 ELSE itemSeq
        /\ resp' = ItemReply("create_item", identity, slug, key, rl, lookupOk, out)
    /\ UNCHANGED <<now, ticks, tokenVars, auxVars, acctVars, siteVars, site_permissions, collections,
                   site_content>>

\* DELETE .../collections/[key]/items/[itemId]
DeleteItemRoute(identity, slug, key, itemId, rl, lookupOk) ==
    LET acc == verifyClientSiteAccess(admin_users, clients, sites, identity, slug, now)
        perms == getSitePermissions(site_permissions, acc.siteId, lookupOk)
        k == getCollectionByKey(collections, acc.siteId, key)
        item == getCollectionItem(collection_items, itemId) IN
    IF ~acc.ok THEN Refuse(acc, collection_items)
    ELSE IF ~rl THEN Refuse(RateLimitError, collection_items)
    ELSE IF ~perms.can_delete_collection_items
    THEN Refuse(Err(403, "You do not have permission to delete collection items"),
                collection_items)
    ELSE IF k = NullId THEN Refuse(Err(404, "Collection not found"), collection_items)
    ELSE IF ~CollectionAllows(collections[k], "can_delete")
    THEN Refuse(Err(403, "Deleting items from this collection is not allowed"),
                collection_items)
    ELSE IF item = NoRow THEN Refuse(Err(404, "Collection item not found"), collection_items)
    ELSE IF item.collection_id # k
    THEN Refuse(Err(404, "Item not found in this collection"), collection_items)
    ELSE Done(200, {i \in collection_items : i.id # itemId}, NoRow)

DeleteItem(identity, slug, key, itemId, rl, lookupOk) ==
    /\ LET out == DeleteItemRoute(identity, slug, key, itemId, rl, lookupOk) IN
        /\ collection_items' = out.items
        /\ resp' = ItemReply("delete_item", identity, slug, key, rl, lookupOk, out)
    /\ UNCHANGED <<now, ticks, tokenVars, auxVars, acctVars, siteVars, site_permissions,
                   collections, itemSeq, site_content>>

\* reorderCollectionItems: every id must be an item of the collection; then
\* sort_order of the id at (0-based) index n becomes n, one update after another
RECURSIVE ApplyOrder(_, _, _)
ApplyOrder(items, ids, n) ==
    IF n > Len(ids) THEN items
    ELSE ApplyOrder({IF i.id = ids[n] THEN [i EXCEPT !.sort_order = n - 1] ELSE i :
                        i \in items}, ids, n + 1)

\* a reorder that does not look at which collection the ids belong to
reorderUnchecked(items, collectionId, ids) == Done(200, ApplyOrder(items, ids, 1), NoRow)

reorderCollectionItems(items, collectionId, ids) ==
    LET existingIds == {i.id : i \in ItemsOf(items, collectionId)} IN
    IF \E n \in 1 .. Len(ids) : ids[n] \notin existingIds
    THEN Refuse(Err(400, "Item does not belong to this collection"), items)
    ELSE Done(200, ApplyOrder(items, ids, 1), NoRow)

\* PUT .../collections/[key]/items/reorder
ReorderRoute(identity, slug, key, ids, rl, lookupOk) ==
    LET acc == verifyClientSiteAccess(admin_users, clients, sites, identity, slug, now)
        perms == getSitePermissions(site_permissions, acc.siteId, lookupOk)
        k == getCollectionByKey(collections, acc.siteId, key) IN
    IF ~acc.ok THEN Refuse(acc, collection_items)
    ELSE IF ~rl THEN Refuse(RateLimitError, collection_items)
    ELSE IF ~perms.can_reorder_collection_items
    THEN Refuse(Err(403, "You do not have permission to reorder collection items"),
                collection_items)
    ELSE IF k = NullId THEN Refuse(Err(404, "Collection not found"), collection_items)
    ELSE IF ~CollectionAllows(collections[k], "can_reorder")
    THEN Refuse(Err(403, "Reordering items in this collection is not allowed"),
                collection_items)
    ELSE IF Len(ids) = 0 THEN Refuse(InternalError, collection_items)
    ELSE reorderCollectionItems(collection_items, k, ids)

ReorderInputs == UNION {[1 .. n -> ItemIds] : n \in 0 .. MaxReorderLen}

ReorderItems(identity, slug, key, ids, rl, lookupOk) ==
    /\ LET out == ReorderRoute(identity, slug, key, ids, rl, lookupOk) IN
        /\ collection_items' = out.items
        /\ resp' = ItemReply("reorder_items", identity, slug, key, rl, lookupOk, out)
    /\ UNCHANGED <<now, ticks, tokenVars, auxVars, acctVars, siteVars, site_permissions,
                   collections, itemSeq, site_content>>

\* GET .../collections/[key]/items/[itemId]
GetItemRoute(identity, slug, key, itemId, rl) ==
    LET acc == verifyClientSiteAccess(admin_users, clients, sites, identity, slug, now)
        k == getCollectionByKey(collections, acc.siteId, key)
        item == getCollectionItem(collection_items, itemId) IN
    IF ~acc.ok THEN Refuse(acc, collection_items)
    ELSE IF ~rl THEN Refuse(RateLimitError, collection_items)
    ELSE IF k = NullId THEN Refuse(Err(404, "Collection not found"), collection_items)
    ELSE IF item = NoRow THEN Refuse(Err(404, "Collection item not found"), collection_items)
    ELSE Done(200, collection_items, item)

GetItem(identity, slug, key, itemId, rl) ==
    /\ resp' = ItemReply("get_item", identity, slug, key, rl, TRUE,
                         GetItemRoute(identity, slug, key, itemId, rl))
    /\ UNCHANGED <<now, ticks, tokenVars, dbVars>>

\* updateSitePermissions(update) from the admin permissions route: the flags
\* named in the update are overwritten; the update of a missing row fails
SetPermission(s, update) ==
    /\ site_permissions' =
          IF s \in DOMAIN site_permissions
          THEN [site_permissions EXCEPT ![s] =
                  [f \in PermFlags |-> IF f \in DOMAIN update THEN update[f] ELSE @[f]]]
          ELSE site_permissions
    /\ resp' = [op |-> "update_permissions", site |-> s,
                status |-> IF s \in DOMAIN site_permissions THEN 200 ELSE 500]
    /\ UNCHANGED <<now, ticks, tokenVars, auxVars, acctVars, siteVars, collections,
                   collection_items, itemSeq, site_content>>

\* updateCollection({flag: value}) from the admin collection route
SetCollectionFlag(k, flag, value) ==
    /\ collections' = [collections EXCEPT ![k][flag] = value]
    /\ resp' = [op |-> "update_collection", collection |-> k, status |-> 200]
    /\ UNCHANGED <<now, ticks, tokenVars, auxVars, acctVars, siteVars, site_permissions,
                   collection_items, itemSeq, site_content>>

\* ------------------------------------------------------------------------
\* Client routes on site content
\* ------------------------------------------------------------------------
\* PUT .../collections/[key]/items/[itemId]: the fields of the body overwrite
\* those of the row
PutItemRoute(identity, slug, key, itemId, body, rl, lookupOk, bodyOk) ==
    LET acc == verifyClientSiteAccess(admin_users, clients, sites, identity, slug, now)
        perms == getSitePermissions(site_permissions, acc.siteId, lookupOk)
        k == getCollectionByKey(collections, acc.siteId, key)
        item == getCollectionItem(collection_items, itemId)
        updated == [f \in DOMAIN item |-> IF f \in DOMAIN body THEN body[f] ELSE item[f]] IN
    IF ~acc.ok THEN Refuse(acc, collection_items)
    ELSE IF ~rl THEN Refuse(RateLimitError, collection_items)
    ELSE IF ~perms.can_edit_collections
    THEN Refuse(Err(403, "You do not have permission to edit collection items"),
                collection_items)
    ELSE IF k = NullId THEN Refuse(Err(404, "Collection not found"), collection_items)
    ELSE IF item = NoRow THEN Refuse(Err(404, "Collection item not found"), collection_items)
    ELSE IF item.collection_id # k
    THEN Refuse(Err(404, "Item not found in this collection"), collection_items)
    ELSE IF ~bodyOk THEN Refuse(InternalError, collection_items)
    ELSE Done(200, (collection_items \ {item}) \cup {updated}, updated)

\* bodies updateCollectionItemSchema accepts: is_visible and sort_order are both
\* optional fields of it
UpdateItemBodies ==
    {[is_visible |-> FALSE], [is_visible |-> TRUE], [sort_order |-> MaxItemIds]}

UpdateItem(identity, slug, key, itemId, body, rl, lookupOk, bodyOk) ==
    /\ LET out == PutItemRoute(identity, slug, key, itemId, body, rl, lookupOk, bodyOk) IN
        /\ collection_items' = out.items
        /\ resp' = ItemReply("update_item", identity, slug, key, rl, lookupOk, out)
    /\ UNCHANGED <<now, ticks, tokenVars, auxVars, acctVars, siteVars, site_permissions,
                   collections, itemSeq, site_content>>

\* the part the content routes share: site access, rate limit, then the flag of
\* the route; the site id when all three let the request through
EditGate(identity, slug, rl, lookupOk, flag, message) ==
    LET acc == verifyClientSiteAccess(admin_users, clients, sites, identity, slug, now)
        perms == getSitePermissions(site_permissions, acc.siteId, lookupOk) IN
    IF ~acc.ok THEN acc
    ELSE IF ~rl THEN RateLimitError
    ELSE IF ~perms[flag] THEN Err(403, message)
    ELSE [ok |-> TRUE, siteId |-> acc.siteId]

\* .update(...) of one part of a site's content by a content route
WriteContent(op, identity, slug, rl, lookupOk, gate, bodyError, field, value) ==
    LET out == IF ~gate.ok THEN Refuse(gate, {})
               ELSE IF bodyError.status # 200 THEN Refuse(bodyError, {})
               ELSE Done(200, {}, NoRow) IN
    /\ site_content' = IF out.status = 200
                       THEN [site_content EXCEPT ![gate.siteId][field] = value]
                       ELSE site_content
    /\ resp' = ItemReply(op, identity, slug, "", rl, lookupOk, out)

NoBodyError == [status |-> 200]

\* PUT .../business-info
UpdateBusinessInfo(identity, slug, value, rl, lookupOk, bodyOk) ==
    /\ WriteContent("update_business_info", identity, slug, rl, lookupOk,
          EditGate(identity, slug, rl, lookupOk, "can_edit_business_info",
                   "You do not have permission to edit business info"),
          IF bodyOk THEN NoBodyError ELSE InternalError, "business_info", value)
    /\ UNCHANGED <<now, ticks, tokenVars, auxVars, acctVars, siteVars, site_permissions,
                   collections, collection_items, itemSeq>>

\* PUT .../text/[key]
UpdateText(identity, slug, value, rl, lookupOk, bodyOk) ==
    /\ WriteContent("update_text", identity, slug, rl, lookupOk,
          EditGate(identity, slug, rl, lookupOk, "can_edit_text",
                   "You do not have permission to edit text content"),
          IF bodyOk THEN NoBodyError ELSE InternalError, "text", value)
    /\ UNCHANGED <<now, ticks, tokenVars, auxVars, acctVars, siteVars, site_permissions,
                   collections, collection_items, itemSeq>>

\* POST .../images/[key]/upload; its rate limit is the one on uploads
UploadImage(identity, slug, value, rl, lookupOk, fileOk) ==
    /\ WriteContent("upload_image", identity, slug, rl, lookupOk,
          EditGate(identity, slug, rl, lookupOk, "can_edit_images",
                   "You do not have permission to upload images"),
          IF fileOk THEN NoBodyError ELSE Err(400, "No file provided"), "image", value)
    /\ UNCHANGED <<now, ticks, tokenVars, auxVars, acctVars, siteVars, site_permissions,
                   collections, collection_items, itemSeq>>

\* POST .../publish: a publish_history entry, and the site's status published
Publish(identity, slug, rl, lookupOk, bodyOk) ==
    LET gate == EditGate(identity, slug, rl, lookupOk, "can_publish",
                         "You do not have permission to publish changes")
        goes == gate.ok /\ bodyOk IN
    /\ goes => site_content[gate.siteId].versions < MaxPublishes
    /\ WriteContent("publish", identity, slug, rl, lookupOk, gate,
          IF bodyOk THEN NoBodyError ELSE InternalError, "versions",
          IF goes THEN site_content[gate.siteId].versions + 1 ELSE 0)
    /\ sites' = IF goes THEN [sites EXCEPT ![gate.siteId].status = "published"] ELSE sites
    /\ UNCHANGED <<now, ticks, tokenVars, auxVars, acctVars, reassigned, site_permissions,
                   collections, collection_items, itemSeq>>

\* ------------------------------------------------------------------------
\* Collection items of linked sites
\* ------------------------------------------------------------------------
OwnerOf(s) == IF s = "s1" THEN "c1" ELSE "c2"
ItemActors == {"c1"}
ItemPermFlags == {"can_add_collection_items", "can_delete_collection_items",
                  "can_reorder_collection_items"}
CollectionFlags == {"can_add", "can_delete", "can_reorder"}
ManagedSites == {"s1"}
ManagedCollections == {"k1"}

\* every site linked to its client
LinkedSitesInit ==
    /\ sites = [s \in SiteIds |->
                  [slug |-> SlugOf(s), client_id |-> OwnerOf(s), status |-> "draft",
                   api_key |-> FirstKeyOf(s)]]
    /\ reassigned = {}
    /\ AuxInit

ItemsInit ==
    /\ TokensIdle
    /\ AccountsInit
    /\ LinkedSitesInit
    /\ ContentInit

\* the requests tried: the own site and a foreign one, a collection key that
\* exists and one that does not, a request the rate limiter lets through and one
\* it stops
ItemRequests ==
    {[slug |-> SlugOf("s1"), key |-> "menu", rl |-> TRUE],
     [slug |-> SlugOf("s1"), key |-> "menu", rl |-> FALSE],
     [slug |-> SlugOf("s1"), key |-> "no-such-collection", rl |-> TRUE],
     [slug |-> SlugOf("s2"), key |-> "menu", rl |-> TRUE]}

\* every item_ids array is tried where the route gets to read it, one elsewhere
ReorderBodies(q) ==
    IF q.slug = SlugOf("s1") /\ q.key = "menu" /\ q.rl THEN ReorderInputs ELSE {<<1>>}

ItemsNext ==
    \/ \E i \in ItemActors, q \in ItemRequests, b \in BOOLEAN :
            CreateItem(i, q.slug, q.key, q.rl, TRUE, b)
    \/ \E i \in ItemActors, q \in ItemRequests, id \in ItemIds :
            DeleteItem(i, q.slug, q.key, id, q.rl, TRUE)
    \/ \E i \in ItemActors, q \in ItemRequests : \E ids \in ReorderBodies(q) :
            ReorderItems(i, q.slug, q.key, ids, q.rl, TRUE)
    \/ \E i \in ItemActors, q \in ItemRequests, id \in ItemIds :
            GetItem(i, q.slug, q.key, id, q.rl)
    \/ \E s \in ManagedSites, f \in ItemPermFlags, b \in BOOLEAN :
            SetPermission(s, f :> b)
    \/ \E k \in ManagedCollections, f \in CollectionFlags, b \in BOOLEAN :
            SetCollectionFlag(k, f, b)

SpecItems == ItemsInit /\ [][ItemsNext]_vars

\* ------------------------------------------------------------------------
\* Sites with and without a permissions row
\* ------------------------------------------------------------------------
\* the first site may have no site_permissions row
PermissionsInit ==
    /\ TokensIdle
    /\ AccountsInit
    /\ LinkedSitesInit
    /\ CollectionsInit
    /\ site_permissions \in {[s \in D |-> DefaultPermissions] :
                                D \in {SiteIds, SiteIds \ {"s1"}}}

\* the requests tried on the own site: one that the rate limiter, the
\* permissions lookup and the body validation all let through, and one stopped
\* by each of them
EditRequests ==
    {[rl |-> TRUE, lookupOk |-> TRUE, bodyOk |-> TRUE],
     [rl |-> TRUE, lookupOk |-> FALSE, bodyOk |-> TRUE],
     [rl |-> FALSE, lookupOk |-> TRUE, bodyOk |-> TRUE],
     [rl |-> TRUE, lookupOk |-> TRUE, bodyOk |-> FALSE]}

OwnSlug(i) == SlugOf(CHOOSE s \in SiteIds : OwnerOf(s) = i)

\* every body is tried where the route gets to write it, one elsewhere
UpdateBodiesFor(q) ==
    IF q.rl /\ q.lookupOk /\ q.bodyOk THEN UpdateItemBodies ELSE {[is_visible |-> FALSE]}

PermissionsNext ==
    \/ \E i \in ItemActors, q \in EditRequests :
            CreateItem(i, OwnSlug(i), "menu", q.rl, q.lookupOk, q.bodyOk)
    \/ \E i \in ItemActors, q \in EditRequests, id \in ItemIds :
            DeleteItem(i, OwnSlug(i), "menu", id, q.rl, q.lookupOk)
    \/ \E i \in ItemActors, q \in EditRequests, id \in ItemIds :
            ReorderItems(i, OwnSlug(i), "menu", IF q.bodyOk THEN <<id>> ELSE <<>>,
                         q.rl, q.lookupOk)
    \/ \E i \in ItemActors, q \in EditRequests, id \in ItemIds :
       \E body \in UpdateBodiesFor(q) :
            UpdateItem(i, OwnSlug(i), "menu", id, body, q.rl, q.lookupOk, q.bodyOk)
    \/ \E i \in ItemActors, q \in EditRequests, v \in ContentValues :
            UpdateBusinessInfo(i, OwnSlug(i), v, q.rl, q.lookupOk, q.bodyOk)
    \/ \E i \in ItemActors, q \in EditRequests, v \in ContentValues :
            UpdateText(i, OwnSlug(i), v, q.rl, q.lookupOk, q.bodyOk)
    \/ \E i \in ItemActors, q \in EditRequests, v \in ContentValues :
            UploadImage(i, OwnSlug(i), v, q.rl, q.lookupOk, q.bodyOk)
    \/ \E i \in ItemActors, q \in EditRequests :
            Publish(i, OwnSlug(i), q.rl, q.lookupOk, q.bodyOk)

SpecPermissions == PermissionsInit /\ [][PermissionsNext]_vars

\* ------------------------------------------------------------------------
\* Public content route
\* ------------------------------------------------------------------------
AlNum == {"a", "b", "c", "d", "e", "f", "g", "h", "i", "j", "k", "l", "m", "n",
          "o", "p", "q", "r", "s", "t", "u", "v", "w", "x", "y", "z",
          "0", "1", "2", "3", "4", "5", "6", "7", "8", "9"}

\* /^[a-z0-9][a-z0-9-]*[a-z0-9]$/.test(slug) and slug.length >= 2
SlugWellFormed(slug) ==
    /\ Len(slug) >= 2
    /\ slug[1] \in AlNum
    /\ slug[Len(slug)] \in AlNum
    /\ \A n \in 2 .. Len(slug) - 1 : slug[n] \in AlNum \cup {"-"}

NoKey == 0          \* the request has no x-api-key header

\* logSecurityEvent: one more row in security_logs
logSecurityEvent(logs, eventType, userId, severity) ==
    logs \cup {[event_type |-> eventType, user_id |-> userId, severity |-> severity]}

\* select ... from sites where slug = slug and api_key = apiKey, .single()
SiteBySlugOnly(tbl, slug, apiKey) ==
    LET hit == {x \in DOMAIN tbl : tbl[x].slug = slug} IN
    IF Cardinality(hit) = 1 THEN CHOOSE x \in hit : TRUE ELSE NullId
SiteBySlugAndKey(tbl, slug, apiKey) ==
    LET hit == {x \in DOMAIN tbl : tbl[x].slug = slug /\ tbl[x].api_key = apiKey} IN
    IF Cardinality(hit) = 1 THEN CHOOSE x \in hit : TRUE ELSE NullId

NotFoundOrInvalidKey == Err(404, "Site not found or invalid API key")

\* what the route answers for a site that matched but is not published
UnpublishedTelling == Err(403, "Site is not published")
UnpublishedError == NotFoundOrInvalidKey

\* the response of errorResponse / NextResponse.json: status and body
PublicError(e, logs) ==
    [status |-> e.status, error |-> e.error, site |-> NullId, content |-> <<>>,
     logs |-> logs]

\* GET /api/public/sites/[slug]/content
PublicGetRoute(tbl, content, logs, slug, apiKey, rl) ==
    LET site == SiteBySlugAndKey(tbl, slug, apiKey) IN
    IF ~rl
    THEN PublicError(RateLimitError, logSecurityEvent(logs, "rate_limit_exceeded", NullId, "warning"))
    ELSE IF apiKey = NoKey THEN PublicError(Err(401, "API key required"), logs)
    ELSE IF ~SlugWellFormed(slug) THEN PublicError(Err(400, "Invalid site identifier"), logs)
    ELSE IF site = NullId
    THEN PublicError(NotFoundOrInvalidKey,
                     logSecurityEvent(logs, "invalid_api_key", NullId, "warning"))
    ELSE IF tbl[site].status # "published" THEN PublicError(UnpublishedError, logs)
    ELSE [status |-> 200, error |-> "", site |-> site, content |-> content[site],
          logs |-> logs]

PublicGet(slug, apiKey, rl) ==
    /\ LET out == PublicGetRoute(sites, site_content, security_logs, slug, apiKey, rl) IN
        /\ security_logs' = out.logs
        /\ resp' = [op |-> "public_get", slug |-> slug, key |-> apiKey,
                    status |-> out.status, error |-> out.error, site |-> out.site,
                    content |-> out.content]
    /\ UNCHANGED <<now, ticks, tokenVars, acctVars, siteVars, contentVars,
                   keySeq, retiredKeys, auth_users, loginVars>>

\* updateSite({status}) from the admin site route
SetStatus(s, status) ==
    /\ sites' = [sites EXCEPT ![s].status = status]
    /\ resp' = [op |-> "update_site", site |-> s]
    /\ UNCHANGED <<now, ticks, tokenVars, acctVars, reassigned, contentVars, auxVars>>

\* archiveSite, the admin DELETE
ArchiveSite(s) ==
    /\ sites' = [sites EXCEPT ![s].status = "archived"]
    /\ resp' = [op |-> "archive_site", site |-> s]
    /\ UNCHANGED <<now, ticks, tokenVars, acctVars, reassigned, contentVars, auxVars>>

\* regenerateApiKey: a key never used before replaces the site's key
RegenerateApiKey(s) ==
    /\ keySeq < MaxKeys
    /\ keySeq' = keySeq + 1
    /\ sites' = [sites EXCEPT ![s].api_key = keySeq + 1]
    /\ retiredKeys' = retiredKeys \cup {<<s, sites[s].api_key>>}
    /\ resp' = [op |-> "regenerate_api_key", site |-> s, key |-> keySeq + 1]
    /\ UNCHANGED <<now, ticks, tokenVars, acctVars, reassigned, contentVars, security_logs,
                   auth_users, loginVars>>

MalformedSlug == <<"-", "x">>
PublicSlugs == Slugs \cup {MalformedSlug}
PresentedKeys == {NoKey} \cup (1 .. MaxKeys)
SiteStatuses == {"draft", "published", "archived"}

PublicInit ==
    /\ TokensIdle
    /\ AccountsInit
    /\ LinkedSitesInit
    /\ ContentInit

PublicNext ==
    \/ \E sl \in PublicSlugs, key \in PresentedKeys, rl \in BOOLEAN : PublicGet(sl, key, rl)
    \/ \E s \in SiteIds, st \in SiteStatuses : SetStatus(s, st)
    \/ \E s \in SiteIds : ArchiveSite(s)
    \/ \E s \in SiteIds : RegenerateApiKey(s)

SpecPublic == PublicInit /\ [][PublicNext]_vars

\* ------------------------------------------------------------------------
\* Login
\* ------------------------------------------------------------------------
LOCK_THRESHOLD == 5
LOCK_MS == 15 * 60 * 1000
LOGIN_LIMIT == 5
LOGIN_WINDOW_MS == 15 * 60 * 1000

\* rateLimit('auth/login', key): a sliding window over the requests it let
\* through; a failure of the limiter itself lets the request through
IsRecent(h, t) == h > t - LOGIN_WINDOW_MS
rateLimit(hits, key, t, redisOk) ==
    LET recent == SelectSeq(hits[key], LAMBDA h : IsRecent(h, t)) IN
    IF ~redisOk THEN [success |-> TRUE, hits |-> hits]
    ELSE IF Len(recent) >= LOGIN_LIMIT
    THEN [success |-> FALSE, hits |-> [hits EXCEPT ![key] = recent]]
    ELSE [success |-> TRUE, hits |-> [hits EXCEPT ![key] = Append(recent, t)]]

incrementFailedLoginAttempts(cls, userId, t) ==
    LET attempts == cls[userId].failed_login_attempts + 1
        lockedUntil == IF attempts >= LOCK_THRESHOLD THEN t + LOCK_MS ELSE NullTime IN
    [clients |-> [cls EXCEPT ![userId].failed_login_attempts = attempts,
                             ![userId].locked_until = lockedUntil],
     attempts |-> attempts, lockedUntil |-> lockedUntil]

\* resetFailedLoginAttempts without clearing the lock
resetCounterOnly(cls, userId) ==
    [cls EXCEPT ![userId].failed_login_attempts = 0]

resetFailedLoginAttempts(cls, userId) ==
    [cls EXCEPT ![userId].failed_login_attempts = 0, ![userId].locked_until = NullTime]

\* request.clone(): a TypeError once the body of the request has been read
RequestClone(bodyUsed) == [ok |-> ~bodyUsed]

\* the catch block of the login route: for an UnauthorizedError it re-reads the
\* body from a clone of the request to find the client and count the failure;
\* whatever goes wrong in doing so is ignored
LoginFail(e, account, userType, hits, logs, bodyUsed) ==
    LET counts == /\ e.status = 401
                  /\ RequestClone(bodyUsed).ok
                  /\ userType = "client"
                  /\ account \in DOMAIN clients
        inc == incrementFailedLoginAttempts(clients, account, now) IN
    [status |-> e.status, error |-> e.error, token |-> 0,
     clients |-> IF counts THEN inc.clients ELSE clients,
     tokens |-> refresh_tokens, hits |-> hits,
     logs |-> IF counts /\ inc.lockedUntil # NullTime
              THEN logSecurityEvent(logs, "account_locked", account, "critical")
              ELSE logs]

\* POST /api/auth/login; request.json() has read the body before anything else
LoginRoute(account, userType, passwordOk, ip, redisOk, bodyOk) ==
    LET rl == rateLimit(loginHits, <<ip, account>>, now, redisOk)
        found == IF userType = "admin" THEN account \in DOMAIN admin_users
                 ELSE account \in DOMAIN clients
        row == IF userType = "admin" THEN admin_users[account] ELSE clients[account]
        failure(reason) == logSecurityEvent(security_logs, "login_failure", reason, "warning")
    IN
    IF ~bodyOk
    THEN LoginFail(InternalError, account, userType, loginHits, security_logs, TRUE)
    ELSE IF ~rl.success
    THEN LoginFail(RateLimitError, account, userType, rl.hits,
                   logSecurityEvent(security_logs, "rate_limit_exceeded", NullId, "critical"),
                   TRUE)
    ELSE IF ~passwordOk
    THEN LoginFail(Err(401, "Invalid email or password"), account, userType, rl.hits,
                   failure(NullId), TRUE)
    ELSE IF ~found
    THEN LoginFail(Err(401, "Invalid email or password"), account, userType, rl.hits,
                   failure(account), TRUE)
    ELSE IF ~row.is_active
    THEN LoginFail(Err(403, "Account is deactivated"), account, userType, rl.hits,
                   failure(account), TRUE)
    ELSE IF userType = "client" /\ row.locked_until # NullTime /\ row.locked_until > now
    THEN LoginFail(Err(403, "Account is temporarily locked. Please try again later."),
                   account, userType, rl.hits, failure(account), TRUE)
    ELSE [status |-> 200, error |-> "", token |-> tokenSeq + 1,
          clients |-> IF userType = "client"
                      THEN resetFailedLoginAttempts(clients, account) ELSE clients,
          tokens |-> createRefreshToken(refresh_tokens, tokenSeq + 1, account, userType, now),
          hits |-> rl.hits,
          logs |-> logSecurityEvent(security_logs, "login_success", account, "info")]

Login(account, userType, passwordOk, ip, redisOk, bodyOk) ==
    LET out == LoginRoute(account, userType, passwordOk, ip, redisOk, bodyOk)
        isClient == account \in ClientIds /\ userType = "client" IN
    /\ out.status = 200 => tokenSeq < MaxTokens
    /\ (isClient /\ ~passwordOk) => streak[account] < MaxFails
    /\ clients' = out.clients
    /\ refresh_tokens' = out.tokens
    /\ tokenSeq' = IF out.status = 200 THEN tokenSeq + 1 ELSE tokenSeq
    /\ loginHits' = out.hits
    /\ security_logs' = out.logs
    /\ streak' = IF isClient /\ out.status = 200 THEN [streak EXCEPT ![account] = 0]
                 ELSE IF isClient /\ out.status = 401 /\ ~passwordOk
                 THEN [streak EXCEPT ![account] = @ + 1]
                 ELSE streak
    /\ resp' = [op |-> "login", account |-> account, userType |-> userType, ip |-> ip,
                passwordOk |-> passwordOk, status |-> out.status, error |-> out.error,
                token |-> out.token,
                priorStreak |-> IF isClient THEN streak[account] ELSE 0,
                priorAttempts |-> IF isClient THEN clients[account].failed_login_attempts
                                  ELSE 0]
    /\ UNCHANGED <<now, ticks, rot, rotated, justRotated, admin_users, siteVars,
                   contentVars, keySeq, retiredKeys, auth_users, incr>>

LoginAccounts == {"c1"}
UserTypes == {"client", "admin"}

LoginInit ==
    /\ TokensIdle
    /\ AccountsInit
    /\ SitesInit
    /\ ContentInit

LoginNext ==
    \E a \in LoginAccounts, ut \in UserTypes, pw \in BOOLEAN, ip \in Ips,
       redisOk \in BOOLEAN, bodyOk \in BOOLEAN :
        Login(a, ut, pw, ip, redisOk, bodyOk)

SpecLogin == LoginInit /\ [][LoginNext]_vars

\* ------------------------------------------------------------------------
\* Site ownership alone
\* ------------------------------------------------------------------------
OwnershipInit ==
    /\ TokensIdle
    /\ ContentInit
    /\ admin_users \in [AdminIds -> [is_active : BOOLEAN, role : {"admin"}]]
    /\ clients = [c \in ClientIds |->
                    [is_active |-> TRUE, failed_login_attempts |-> 0,
                     locked_until |-> NullTime]]
    /\ SitesInit

OwnershipNext ==
    \/ \E s \in SiteIds, c \in ClientIds \cup {NullId} : AssignClient(s, c)
    \/ \E c \in ClientIds, b \in BOOLEAN : SetClientActive(c, b)
    \/ \E i \in Identities, sl \in Slugs : CallVerifyClientSiteAccess(i, sl)

SpecOwnership == OwnershipInit /\ [][OwnershipNext]_vars

\* ------------------------------------------------------------------------
\* Claims on site ownership
\* ------------------------------------------------------------------------

\* C4: verifyClientSiteAccess(slug) succeeds for a Client only if a Site with
\* that slug exists and its client_id is the Client's own id; a Site whose
\* client_id is null is refused to every Client; for an active Administrator it
\* succeeds for every existing Site.  The answer follows the Site's current
\* client_id: linking the Client turns the refusal into success, and changing
\* client_id away turns success into Forbidden.
C4_SiteAccessFollowsOwnership ==
    resp.op = "site_access" =>
        LET site == SiteBySlug(sites, resp.slug)
            u == resp.actor
            r == resp.result IN
        /\ (u \in ClientIds /\ r.ok) =>
              (site # NullId /\ sites[site].client_id = u /\ r.siteId = site)
        /\ (u \in ClientIds /\ site # NullId /\ sites[site].client_id = NullId) => ~r.ok
        /\ (u \in ClientIds /\ clients[u].is_active /\ site # NullId) =>
              (r.ok <=> sites[site].client_id = u)
        /\ (u \in ClientIds /\ clients[u].is_active /\ ~r.ok) => r.status = 403
        /\ (u \in AdminIds /\ admin_users[u].is_active /\ site # NullId) =>
              (r.ok /\ r.siteId = site)

\* a Client is admitted to a Site that an update linked to it
C4_Witness ==
    /\ resp.op = "site_access"
    /\ resp.actor \in ClientIds
    /\ resp.result.ok
    /\ resp.result.siteId \in reassigned

\* ------------------------------------------------------------------------
\* Claims on collection items
\* ------------------------------------------------------------------------
ItemMutations == {"create_item", "delete_item", "reorder_items"}

SiteFlagOf(op) ==
    IF op = "create_item" THEN "can_add_collection_items"
    ELSE IF op = "delete_item" THEN "can_delete_collection_items"
    ELSE "can_reorder_collection_items"

CollectionFlagOf(op) ==
    IF op = "create_item" THEN "can_add"
    ELSE IF op = "delete_item" THEN "can_delete"
    ELSE "can_reorder"

\* both switches of the pair are on for this collection
PairOn(k, op) ==
    /\ collections[k].site_id \in DOMAIN site_permissions
    /\ site_permissions[collections[k].site_id][SiteFlagOf(op)]
    /\ collections[k][CollectionFlagOf(op)]

C3_Step ==
    LET r == resp'
        site == SiteBySlug(sites, r.slug)
        k == getCollectionByKey(collections, site, r.key)
        added == {i \in collection_items' : \A j \in collection_items : j.id # i.id}
        removed == {i \in collection_items : \A j \in collection_items' : j.id # i.id}
        moved == {i \in collection_items : \E j \in collection_items' :
                      j.id = i.id /\ j.sort_order # i.sort_order} IN
    /\ \A i \in added : PairOn(i.collection_id, "create_item")
    /\ \A i \in removed : PairOn(i.collection_id, "delete_item")
    /\ \A i \in moved : PairOn(i.collection_id, "reorder_items")
    /\ (r.op \in ItemMutations /\ r.actor \in ClientIds) =>
          /\ r.status \in {200, 201} => (site # NullId /\ k # NullId /\ PairOn(k, r.op))
          /\ (site # NullId /\ sites[site].client_id = r.actor /\ ~r.limited
                /\ k # NullId /\ ~PairOn(k, r.op)) =>
                (r.status = 403 /\ collection_items' = collection_items)

\* C3: a Client's create, delete or reorder of collection items is carried out
\* only if both the site permission and the collection switch of its pair are
\* true; when either is false, the request that reaches the check is answered
\* Forbidden and no item is created, deleted or moved.
C3_ItemMutationNeedsBothFlags == [][C3_Step]_vars

\* a delete refused by the collection switch alone, the site permission being on
C3_Witness ==
    /\ resp.op = "delete_item"
    /\ resp.actor \in ClientIds
    /\ resp.status = 403
    /\ resp.error = "Deleting items from this collection is not allowed"
    /\ site_permissions["s1"]["can_delete_collection_items"]
    /\ ~collections["k1"].can_delete
    /\ \E i \in collection_items : i.collection_id = "k1"

\* C5: a client route returns a collection item to a Client only when the item
\* belongs to the collection named in the URL, on a site whose client_id is the
\* Client's id.
C5_NoForeignItemReturned ==
    (resp.op = "get_item" /\ resp.actor \in ClientIds /\ resp.status = 200) =>
        LET site == SiteBySlug(sites, resp.slug)
            k == getCollectionByKey(collections, site, resp.key) IN
        /\ resp.item.collection_id = k
        /\ sites[collections[resp.item.collection_id].site_id].client_id = resp.actor

\* ------------------------------------------------------------------------
\* Claims on the permissions row
\* ------------------------------------------------------------------------
ClientEdits == {"create_item", "delete_item", "reorder_items", "update_item",
                "update_business_info", "update_text", "upload_image", "publish"}

\* what a client edit can change of a site
EditableState(s) ==
    <<site_content[s], sites[s].status,
      {i \in collection_items : collections[i.collection_id].site_id = s}>>

EditableStateNext(s) ==
    <<site_content'[s], sites'[s].status,
      {i \in collection_items' : collections'[i.collection_id].site_id = s}>>

C6_Step ==
    LET r == resp'
        site == SiteBySlug(sites, r.slug) IN
    /\ \A s \in SiteIds, lk \in BOOLEAN :
          (s \notin DOMAIN site_permissions \/ ~lk) =>
              \A f \in PermFlags : ~getSitePermissions(site_permissions, s, lk)[f]
    /\ (r.op \in ClientEdits /\ r.actor \in ClientIds /\ site # NullId
          /\ (site \notin DOMAIN site_permissions \/ r.lookupFailed)) =>
          /\ r.status \notin {200, 201}
          /\ EditableStateNext(site) = EditableState(site)
          /\ (sites[site].client_id = r.actor /\ ~r.limited) => r.status = 403
    /\ \A s \in SiteIds :
          (s \notin DOMAIN site_permissions /\ s \notin DOMAIN site_permissions') =>
              EditableStateNext(s) = EditableState(s)

\* C6: for a site without a site_permissions row, or when the lookup fails,
\* getSitePermissions yields all eight flags false, and every edit, add,
\* delete, reorder and publish of a Client on that site is refused with
\* Forbidden and changes nothing; a missing row grants no capability.
C6_MissingRowGrantsNothing == [][C6_Step]_vars

\* the client of a site without a permissions row is refused publishing
C6_Witness ==
    /\ resp.op = "publish"
    /\ resp.actor \in ClientIds
    /\ resp.status = 403
    /\ ~resp.lookupFailed
    /\ "s1" \notin DOMAIN site_permissions
    /\ SiteBySlug(sites, resp.slug) = "s1"
    /\ sites["s1"].client_id = resp.actor

\* ------------------------------------------------------------------------
\* Claims on the public content route
\* ------------------------------------------------------------------------
\* why a request with a key and a well-formed slug finds nothing to serve
FailureCause(slug, apiKey) ==
    LET named == {s \in SiteIds : sites[s].slug = slug}
        keyed == {s \in named : sites[s].api_key = apiKey} IN
    IF named = {} THEN "no_such_slug"
    ELSE IF keyed = {} THEN "wrong_key"
    ELSE IF \E s \in keyed : sites[s].status # "published" THEN "unpublished"
    ELSE "none"

\* status and body of the answer to a request the rate limiter lets through
PublicAnswer(slug, apiKey) ==
    LET out == PublicGetRoute(sites, site_content, security_logs, slug, apiKey, TRUE) IN
    [status |-> out.status, error |-> out.error, content |-> out.content]

FailingRequests ==
    {q \in PublicSlugs \X (PresentedKeys \ {NoKey}) :
        SlugWellFormed(q[1]) /\ FailureCause(q[1], q[2]) # "none"}

\* C7: with a key present and a well-formed slug, a request that fails because
\* no site has the slug, one that fails because the key is not the site's, and
\* one that fails because the site is not published get the same status code and
\* the same error body.
C7_FailuresIndistinguishable ==
    /\ \A q1 \in FailingRequests, q2 \in FailingRequests :
          PublicAnswer(q1[1], q1[2]) = PublicAnswer(q2[1], q2[2])
    /\ (resp.op = "public_get" /\ resp.status # 429
          /\ <<resp.slug, resp.key>> \in FailingRequests) =>
          \A q \in FailingRequests :
              [status |-> resp.status, error |-> resp.error, content |-> resp.content]
                  = PublicAnswer(q[1], q[2])

\* slug and key of an unpublished site were presented and refused, while
\* requests failing for the two other causes exist
C7_Witness ==
    /\ resp.op = "public_get"
    /\ resp.status = 404
    /\ FailureCause(resp.slug, resp.key) = "unpublished"
    /\ \E q \in FailingRequests : FailureCause(q[1], q[2]) = "wrong_key"
    /\ \E q \in FailingRequests : FailureCause(q[1], q[2]) = "no_such_slug"

\* C8: the public route answers 200 with content for (slug, key) only if one
\* site has that slug, that API key and status published; a draft or archived
\* site is never served, and a key that regenerateApiKey replaced never yields
\* content again.
C8_ContentOnlyForPublishedSiteAndKey ==
    (resp.op = "public_get" /\ resp.status = 200) =>
        /\ {s \in SiteIds : sites[s].slug = resp.slug /\ sites[s].api_key = resp.key
                              /\ sites[s].status = "published"} = {resp.site}
        /\ resp.content = site_content[resp.site]
        /\ \A s \in SiteIds : <<s, resp.key>> \notin retiredKeys

\* a site served under its new key after its key was regenerated
C8_Witness ==
    /\ resp.op = "public_get"
    /\ resp.status = 200
    /\ \E k \in 1 .. MaxKeys : <<resp.site, k>> \in retiredKeys

\* ------------------------------------------------------------------------
\* Claims on login lockout
\* ------------------------------------------------------------------------
\* C9: counted from failed_login_attempts = 0, while fewer than five client
\* logins in a row have failed locked_until is unset; once five have, it is set
\* to a time in the future and an account_locked event of critical severity is
\* logged; each of the five attempts is answered 401.
C9_LockAfterFiveFailures ==
    /\ \A c \in ClientIds :
          /\ streak[c] < LOCK_THRESHOLD => clients[c].locked_until = NullTime
          /\ streak[c] = LOCK_THRESHOLD =>
                /\ clients[c].locked_until > now
                /\ [event_type |-> "account_locked", user_id |-> c,
                    severity |-> "critical"] \in security_logs
    /\ (resp.op = "login" /\ resp.userType = "client" /\ ~resp.passwordOk
          /\ resp.priorStreak < LOCK_THRESHOLD /\ resp.status \notin {429, 500}) =>
          resp.status = 401

\* C10: once five client logins in a row have failed, the next attempt, made
\* within the lock time, is answered 403 even with the right password; no
\* refresh token is issued and the counter and the lock stay as they are.
C10_SixthAttemptForbidden ==
    (resp.op = "login" /\ resp.userType = "client" /\ resp.account \in ClientIds
       /\ resp.priorStreak >= LOCK_THRESHOLD /\ resp.passwordOk /\ resp.status # 500) =>
        /\ resp.status = 403
        /\ resp.token = 0
        /\ clients[resp.account].failed_login_attempts >= LOCK_THRESHOLD
        /\ clients[resp.account].locked_until > now

\* ------------------------------------------------------------------------
\* The failed-login counter of a client, with the session library's
\* incrementFailedLoginAttempts called directly, the clock and deactivation
\* ------------------------------------------------------------------------
\* a call of incrementFailedLoginAttempts(userId)
CountFailure(c) ==
    /\ clients[c].failed_login_attempts < MaxFails
    /\ LET inc == incrementFailedLoginAttempts(clients, c, now) IN
         /\ clients' = inc.clients
         /\ resp' = [op |-> "increment", account |-> c, attempts |-> inc.attempts]
    /\ UNCHANGED <<now, ticks, tokenVars, auxVars, admin_users, siteVars, contentVars>>

\* the lock period passes
LockTick ==
    /\ ticks < MaxTicks
    /\ now' = now + LOCK_MS
    /\ ticks' = ticks + 1
    /\ resp' = [op |-> "tick"]
    /\ UNCHANGED <<tokenVars, dbVars>>

CounterNext ==
    \/ \E pw \in BOOLEAN : Login("c1", "client", pw, "ip1", TRUE, TRUE)
    \/ CountFailure("c1")
    \/ \E b \in BOOLEAN : SetClientActive("c1", b)
    \/ LockTick

SpecCounter == LoginInit /\ [][CounterNext]_vars

\* C11: a Client login that succeeds leaves failed_login_attempts = 0 and
\* locked_until = null for that Client whatever the counter was before; a
\* login that does not succeed (wrong password, rate limit, deactivated,
\* locked) resets neither column.
C11_Step ==
    (resp'.op = "login" /\ resp'.userType = "client" /\ resp'.account \in ClientIds) =>
        LET c == resp'.account IN
        IF resp'.status = 200
        THEN /\ clients'[c].failed_login_attempts = 0
             /\ clients'[c].locked_until = NullTime
        ELSE /\ clients'[c].failed_login_attempts >= clients[c].failed_login_attempts
             /\ clients[c].locked_until # NullTime =>
                   clients'[c].locked_until >= clients[c].locked_until
C11_SuccessfulLoginResetsCounter == [][C11_Step]_vars
C11_Witness ==
    /\ resp.op = "login" /\ resp.userType = "client" /\ resp.status = 200
    /\ resp.priorAttempts >= LOCK_THRESHOLD
    /\ clients[resp.account].failed_login_attempts = 0
    /\ clients[resp.account].locked_until = NullTime

\* ------------------------------------------------------------------------
\* POST /api/auth/logout
\* ------------------------------------------------------------------------
LogoutRoute(identity) ==
    LET auth == verifyAuth(admin_users, clients, identity, now) IN
    IF ~auth.ok
    THEN [status |-> auth.status, error |-> auth.error, type |-> NullId,
          tokens |-> refresh_tokens, logs |-> security_logs]
    ELSE [status |-> 200, error |-> "", type |-> auth.type,
          tokens |-> revokeAllUserTokens(refresh_tokens, auth.id, auth.type, now),
          logs |-> logSecurityEvent(security_logs, "logout", auth.id, "info")]

Logout(identity) ==
    LET out == LogoutRoute(identity) IN
    /\ refresh_tokens' = out.tokens
    /\ security_logs' = out.logs
    /\ resp' = [op |-> "logout", actor |-> identity, type |-> out.type,
                status |-> out.status, error |-> out.error]
    /\ justRotated' = NoRotation
    /\ UNCHANGED <<now, ticks, tokenSeq, rot, rotated, acctVars, siteVars, contentVars,
                   keySeq, retiredKeys, auth_users, loginVars>>

SessionUsers == {"a1", "c1"}

LogoutNext ==
    \/ \E u \in SessionUsers : Login(u, UserTypeOf(u), TRUE, "ip1", TRUE, TRUE)
    \/ \E t \in TokenValues : Rotate(t)
    \/ \E i \in SessionUsers \cup {NoIdentity} : Logout(i)

SpecLogout == LoginInit /\ [][LogoutNext]_vars

\* C12: when a logout of principal P completes, every refresh token issued to
\* P with P's kind before it is revoked (validateRefreshToken and
\* rotateRefreshToken find each of them invalid), no row is deleted and the
\* refresh tokens of other principals are unchanged.
C12_Step ==
    (resp'.op = "logout" /\ resp'.status = 200) =>
        /\ \A r \in refresh_tokens :
              IF r.user_id = resp'.actor /\ r.user_type = resp'.type
              THEN /\ \E q \in refresh_tokens' : q.id = r.id /\ q.revoked_at # NullTime
                   /\ validateRefreshToken(refresh_tokens', r.id, now') = Invalid
                   /\ RotateRead(refresh_tokens', r.id, now') = NoRow
              ELSE r \in refresh_tokens'
        /\ Cardinality(refresh_tokens') = Cardinality(refresh_tokens)
C12_LogoutRevokesAllTokens == [][C12_Step]_vars
C12_Witness ==
    /\ resp.op = "logout" /\ resp.status = 200
    /\ Cardinality({r \in refresh_tokens : r.user_id = resp.actor
                                            /\ r.revoked_at = now}) >= 2
    /\ \E r \in refresh_tokens : r.user_id # resp.actor /\ r.revoked_at = NullTime

\* ------------------------------------------------------------------------
\* POST /api/auth/password/change
\* ------------------------------------------------------------------------
\* signInWithPassword(email, current_password) of the identity provider
AnyPasswordOk(stored, presented) == TRUE
CurrentPasswordOk(stored, presented) == stored = presented

ChangePasswordRoute(identity, current_password, new_password, updateOk) ==
    LET auth == verifyAuth(admin_users, clients, identity, now)
        same(status, error, logs) ==
            [status |-> status, error |-> error, users |-> auth_users,
             tokens |-> refresh_tokens, logs |-> logs] IN
    IF ~auth.ok THEN same(auth.status, auth.error, security_logs)
    ELSE IF ~passwordChangeSchema(current_password, new_password)
    THEN same(InternalError.status, InternalError.error, security_logs)
    ELSE IF ~validatePassword(new_password, EmailUserOf(auth.id))
    THEN same(400, "Password does not meet the policy", security_logs)
    ELSE IF ~CurrentPasswordOk(auth_users[auth.id].password, current_password)
    THEN same(401, "Current password is incorrect",
              logSecurityEvent(security_logs, "password_change", auth.id, "warning"))
    ELSE IF ~updateOk
    THEN same(InternalError.status, InternalError.error, security_logs)
    ELSE [status |-> 200, error |-> "",
          users |-> [auth_users EXCEPT ![auth.id].password = new_password],
          tokens |-> revokeAllUserTokens(refresh_tokens, auth.id, auth.type, now),
          logs |-> logSecurityEvent(security_logs, "password_change", auth.id, "info")]

ChangePassword(identity, current_password, new_password, updateOk) ==
    LET out == ChangePasswordRoute(identity, current_password, new_password, updateOk) IN
    /\ auth_users' = out.users
    /\ refresh_tokens' = out.tokens
    /\ security_logs' = out.logs
    /\ resp' = [op |-> "password_change", actor |-> identity,
                current |-> current_password, new |-> new_password,
                status |-> out.status, error |-> out.error]
    /\ justRotated' = NoRotation
    /\ UNCHANGED <<now, ticks, tokenSeq, rot, rotated, acctVars, siteVars, contentVars,
                   keySeq, retiredKeys, loginVars>>

\* the requests tried: either password as the current one with a new password
\* that passes, then one request for each way of failing earlier or later
ChangeRequests ==
    {[actor |-> i, current |-> cur, new |-> SecondPassword, updateOk |-> TRUE] :
        i \in SessionUsers, cur \in {FirstPassword, SecondPassword}}
    \cup {[actor |-> NoIdentity, current |-> FirstPassword, new |-> SecondPassword,
           updateOk |-> TRUE],
          [actor |-> "c1", current |-> FirstPassword, new |-> ShortPassword,
           updateOk |-> TRUE],
          [actor |-> "c1", current |-> FirstPassword, new |-> RepeatingPassword,
           updateOk |-> TRUE],
          [actor |-> "c1", current |-> SecondPassword, new |-> RepeatingPassword,
           updateOk |-> TRUE],
          [actor |-> "c1", current |-> FirstPassword, new |-> SecondPassword,
           updateOk |-> FALSE]}

PasswordNext ==
    \/ \E u \in SessionUsers : Login(u, UserTypeOf(u), TRUE, "ip1", TRUE, TRUE)
    \/ \E q \in ChangeRequests : ChangePassword(q.actor, q.current, q.new, q.updateOk)

SpecPassword == LoginInit /\ [][PasswordNext]_vars

\* C13: a password change updates the credential and revokes refresh tokens
\* only when the new password passes the policy and the current password is
\* the stored one; with a wrong current password (and a new password that
\* passes) the answer is 401, and in every case of a wrong current password
\* neither the credential nor any refresh token changes; a change that
\* succeeds leaves every refresh token of the principal revoked.
C13_Step ==
    resp'.op = "password_change" =>
        LET u == resp'.actor
            known == u \in UserIds
            policyOk == /\ passwordChangeSchema(resp'.current, resp'.new)
                        /\ known /\ validatePassword(resp'.new, EmailUserOf(u))
            currentOk == known /\ auth_users[u].password = resp'.current IN
        /\ (auth_users' # auth_users \/ refresh_tokens' # refresh_tokens) =>
               policyOk /\ currentOk /\ resp'.status = 200
        /\ (known /\ ~currentOk) =>
               /\ auth_users' = auth_users
               /\ refresh_tokens' = refresh_tokens
               /\ (policyOk /\ verifyAuth(admin_users, clients, u, now).ok) =>
                      resp'.status = 401
        /\ resp'.status = 200 =>
               /\ auth_users'[u].password = resp'.new
               /\ \A r \in refresh_tokens' :
                     r.user_id = u => r.revoked_at # NullTime
C13_PasswordChangeOrder == [][C13_Step]_vars
C13_Witness ==
    /\ resp.op = "password_change" /\ resp.status = 200
    /\ auth_users[resp.actor].password = resp.new
    /\ resp.current # resp.new
    /\ Cardinality({r \in refresh_tokens : r.user_id = resp.actor
                                            /\ r.revoked_at # NullTime}) >= 2

\* ------------------------------------------------------------------------
\* POST /api/auth/refresh
\* ------------------------------------------------------------------------
\* the account tests the refresh route makes after the rotation
RefreshAccountOpen(admins, cls, userId, userType, t) == [ok |-> TRUE]
RefreshAccountCheck(admins, cls, userId, userType, t) ==
    LET tbl == IF userType = "admin" THEN admins ELSE cls IN
    IF userId \notin DOMAIN tbl \/ ~tbl[userId].is_active
    THEN Err(403, "Account is deactivated")
    ELSE IF userType = "client" /\ tbl[userId].locked_until # NullTime
            /\ tbl[userId].locked_until > t
    THEN Err(403, "Account is temporarily locked")
    ELSE [ok |-> TRUE]

\* a refresh route that looks at the account before it rotates: a refused
\* account leaves the token store as it was
RefreshRouteCheckFirst(token, rl, bodyOk) ==
    LET rec == RotateRead(refresh_tokens, token, now)
        stored == createRefreshToken(RevokeRow(refresh_tokens, rec.id, now),
                                     tokenSeq + 1, rec.user_id, rec.user_type, now)
        acct == RefreshAccountCheck(admin_users, clients, rec.user_id, rec.user_type, now)
        refuse(e, logs) ==
            [status |-> e.status, error |-> e.error, token |-> 0,
             tokens |-> refresh_tokens, logs |-> logs, didRotate |-> FALSE] IN
    IF ~bodyOk THEN refuse(InternalError, security_logs)
    ELSE IF ~rl
    THEN refuse(RateLimitError,
                logSecurityEvent(security_logs, "rate_limit_exceeded", NullId, "warning"))
    ELSE IF rec = NoRow
    THEN refuse(Err(401, "Invalid or expired refresh token"),
                logSecurityEvent(security_logs, "invalid_token", NullId, "warning"))
    ELSE IF ~acct.ok THEN refuse(acct, security_logs)
    ELSE [status |-> 200, error |-> "", token |-> tokenSeq + 1, tokens |-> stored,
          logs |-> logSecurityEvent(security_logs, "token_refresh", rec.user_id, "info"),
          didRotate |-> TRUE]

\* rotateRefreshToken runs before the account is looked at: when the account
\* is refused the old row is already revoked and the new row already stored
RefreshRoute(token, rl, bodyOk) ==
    LET rec == RotateRead(refresh_tokens, token, now)
        stored == createRefreshToken(RevokeRow(refresh_tokens, rec.id, now),
                                     tokenSeq + 1, rec.user_id, rec.user_type, now)
        acct == RefreshAccountCheck(admin_users, clients, rec.user_id, rec.user_type, now)
        refuse(e, tokens, logs, didRotate) ==
            [status |-> e.status, error |-> e.error, token |-> 0, tokens |-> tokens,
             logs |-> logs, didRotate |-> didRotate] IN
    IF ~bodyOk THEN refuse(InternalError, refresh_tokens, security_logs, FALSE)
    ELSE IF ~rl
    THEN refuse(RateLimitError, refresh_tokens,
                logSecurityEvent(security_logs, "rate_limit_exceeded", NullId, "warning"),
                FALSE)
    ELSE IF rec = NoRow
    THEN refuse(Err(401, "Invalid or expired refresh token"), refresh_tokens,
                logSecurityEvent(security_logs, "invalid_token", NullId, "warning"), FALSE)
    ELSE IF ~acct.ok /\ acct.error = "Account is deactivated"
    THEN refuse(acct, stored,
                logSecurityEvent(security_logs, "invalid_token", rec.user_id, "warning"),
                TRUE)
    ELSE IF ~acct.ok THEN refuse(acct, stored, security_logs, TRUE)
    ELSE [status |-> 200, error |-> "", token |-> tokenSeq + 1, tokens |-> stored,
          logs |-> logSecurityEvent(security_logs, "token_refresh", rec.user_id, "info"),
          didRotate |-> TRUE]

Refresh(token, rl, bodyOk) ==
    LET out == RefreshRoute(token, rl, bodyOk) IN
    /\ out.didRotate => tokenSeq < MaxTokens
    /\ refresh_tokens' = out.tokens
    /\ tokenSeq' = IF out.didRotate THEN tokenSeq + 1 ELSE tokenSeq
    /\ rotated' = IF out.didRotate THEN rotated \cup {token} ELSE rotated
    /\ justRotated' = NoRotation
    /\ security_logs' = out.logs
    /\ resp' = [op |-> "refresh", presented |-> token, limited |-> ~rl,
                bodyOk |-> bodyOk, status |-> out.status, error |-> out.error,
                token |-> out.token]
    /\ UNCHANGED <<now, ticks, rot, acctVars, siteVars, contentVars,
                   keySeq, retiredKeys, auth_users, loginVars>>

\* a clients row removed in the database; refresh_tokens has no foreign key
\* to it, so the tokens of the account stay
RemoveClient(c) ==
    /\ c \in DOMAIN clients
    /\ clients' = [x \in DOMAIN clients \ {c} |-> clients[x]]
    /\ resp' = [op |-> "remove_client", client |-> c]
    /\ UNCHANGED <<now, ticks, tokenVars, auxVars, admin_users, siteVars, contentVars>>

RefreshRequests == {[rl |-> TRUE, bodyOk |-> TRUE], [rl |-> FALSE, bodyOk |-> TRUE]}

\* a login of a client whose row exists, with the right password
ClientLogin(u) ==
    /\ u \in DOMAIN clients
    /\ Login(u, "client", TRUE, "ip1", TRUE, TRUE)

\* client c1 is one failed login short of the lock
RefreshInit ==
    /\ TokensIdle
    /\ admin_users = [a \in AdminIds |-> [is_active |-> TRUE, role |-> "admin"]]
    /\ clients = [c \in ClientIds |->
                    [is_active |-> TRUE,
                     failed_login_attempts |-> IF c = "c1" THEN LOCK_THRESHOLD - 1 ELSE 0,
                     locked_until |-> NullTime]]
    /\ SitesInit
    /\ ContentInit

\* deactivateClient and a counted failure, for a client whose row exists
DeactivateClient(c) ==
    /\ c \in DOMAIN clients
    /\ SetClientActive(c, FALSE)
CountClientFailure(c) ==
    /\ c \in DOMAIN clients
    /\ CountFailure(c)

RefreshNext ==
    \/ ClientLogin("c1")
    \/ \E t \in TokenValues, q \in RefreshRequests : Refresh(t, q.rl, q.bodyOk)
    \/ DeactivateClient("c1")
    \/ CountClientFailure("c1")
    \/ RemoveClient("c1")

SpecRefresh == RefreshInit /\ [][RefreshNext]_vars

\* C14: a refresh request (well-formed, within the rate limit) whose token is
\* valid but whose owner is missing, deactivated or, for a Client, locked
\* until a future instant is answered 403 and carries no new refresh token.
C14_Step ==
    (resp'.op = "refresh" /\ resp'.bodyOk /\ ~resp'.limited) =>
        LET v == validateRefreshToken(refresh_tokens, resp'.presented, now)
            tbl == IF v.userType = "admin" THEN admin_users ELSE clients
            missing == v.userId \notin DOMAIN tbl
            refused == \/ missing
                       \/ ~tbl[v.userId].is_active
                       \/ /\ v.userType = "client"
                          /\ tbl[v.userId].locked_until # NullTime
                          /\ tbl[v.userId].locked_until > now IN
        (v.ok /\ refused) => resp'.status = 403 /\ resp'.token = 0
C14_RefusedAccountGetsNoToken == [][C14_Step]_vars
C14_Witness ==
    /\ resp.op = "refresh" /\ resp.status = 403 /\ resp.token = 0
    /\ resp.error = "Account is temporarily locked"
    /\ resp.presented \in rotated

\* ------------------------------------------------------------------------
\* verifyAuth over every content of the two account tables
\* ------------------------------------------------------------------------
BothId == "b1"                   \* an id with a row in admin_users and in clients
Roles == {"super_admin", "admin", "editor"}
ResolveAdminIds == {"a1", BothId}
ResolveClientIds == {"c1", BothId}
ResolveIdentities == ResolveAdminIds \cup ResolveClientIds \cup {StrangerId, NoIdentity}

ResolveInit ==
    /\ TokensIdle
    /\ SitesInit
    /\ ContentInit
    /\ admin_users \in [ResolveAdminIds -> [is_active : BOOLEAN, role : Roles]]
    /\ clients \in [ResolveClientIds ->
                      [is_active : BOOLEAN, failed_login_attempts : {0},
                       locked_until : {NullTime, LOCK_MS}]]

CallVerifyAuth(identity) ==
    /\ resp' = [op |-> "verify_auth", actor |-> identity,
                result |-> verifyAuth(admin_users, clients, identity, now)]
    /\ UNCHANGED <<now, ticks, tokenVars, dbVars>>

ResolveNext ==
    \/ \E i \in ResolveIdentities : CallVerifyAuth(i)
    \/ LockTick

SpecResolve == ResolveInit /\ [][ResolveNext]_vars

\* C15: verifyAuth answers 401 without an authenticated identity; for an id in
\* admin_users, 403 when inactive and otherwise kind admin with the row's role,
\* whatever clients holds; otherwise for an id in clients, 403 when inactive,
\* 403 when locked_until is set and in the future, otherwise kind client; for
\* an id in neither table, 401.
C15_ResolveDecides ==
    resp.op = "verify_auth" =>
        LET id == resp.actor
            r == resp.result IN
        IF id = NoIdentity THEN ~r.ok /\ r.status = 401
        ELSE IF id \in DOMAIN admin_users
        THEN IF ~admin_users[id].is_active THEN ~r.ok /\ r.status = 403
             ELSE r.ok /\ r.type = "admin" /\ r.role = admin_users[id].role /\ r.id = id
        ELSE IF id \in DOMAIN clients
        THEN IF ~clients[id].is_active THEN ~r.ok /\ r.status = 403
             ELSE IF clients[id].locked_until # NullTime /\ clients[id].locked_until > now
             THEN ~r.ok /\ r.status = 403
             ELSE r.ok /\ r.type = "client" /\ r.id = id
        ELSE ~r.ok /\ r.status = 401
C15_Witness ==
    /\ resp.op = "verify_auth" /\ resp.actor = BothId
    /\ ~clients[BothId].is_active
    /\ resp.result.ok /\ resp.result.type = "admin"

\* ------------------------------------------------------------------------
\* The collection item routes called by an Administrator
\* ------------------------------------------------------------------------
AdminItemsNext ==
    \/ \E i \in AdminIds, q \in ItemRequests, b \in BOOLEAN :
            CreateItem(i, q.slug, q.key, q.rl, TRUE, b)
    \/ \E i \in AdminIds, q \in ItemRequests, id \in ItemIds :
            DeleteItem(i, q.slug, q.key, id, q.rl, TRUE)
    \/ \E i \in AdminIds, q \in ItemRequests : \E ids \in ReorderBodies(q) :
            ReorderItems(i, q.slug, q.key, ids, q.rl, TRUE)
    \/ \E s \in ManagedSites, f \in ItemPermFlags, b \in BOOLEAN :
            SetPermission(s, f :> b)
    \/ \E k \in ManagedCollections, f \in CollectionFlags, b \in BOOLEAN :
            SetCollectionFlag(k, f, b)

SpecAdminItems == ItemsInit /\ [][AdminItemsNext]_vars

CollectionFlagRefusals ==
    {"Adding items to this collection is not allowed",
     "Deleting items from this collection is not allowed",
     "Reordering items in this collection is not allowed"}

\* C16: an Administrator's create, delete or reorder of collection items of an
\* existing Site is never refused because the Collection's can_add, can_delete
\* or can_reorder flag is false.
C16_AdminNotRefusedByCollectionFlag ==
    (resp.op \in ItemMutations /\ resp.actor \in AdminIds) =>
        resp.error \notin CollectionFlagRefusals

\* C17: to a Client, verifyClientSiteAccess answers the slug of a Site owned by
\* someone else exactly as it answers a slug that matches no Site: the same
\* status and the same error body.
C17_ForeignSiteLooksAbsent ==
    (/\ resp.op = "site_access"
     /\ resp.actor \in ClientIds
     /\ SiteBySlug(sites, resp.slug) # NullId
     /\ sites[SiteBySlug(sites, resp.slug)].client_id # resp.actor
     /\ verifyAuth(admin_users, clients, resp.actor, now).ok) =>
        LET absent == verifyClientSiteAccess(admin_users, clients, sites, resp.actor,
                                             NoSuchSlug, now) IN
        /\ ~resp.result.ok
        /\ resp.result.status = absent.status
        /\ resp.result.error = absent.error

\* ------------------------------------------------------------------------
\* POST /api/auth/password/reset
\* ------------------------------------------------------------------------
ResetSuccessMsg ==
    "If an account exists with this email, a password reset link has been sent."

\* the row of the stated kind with that email, when it is usable
AnyAccountMatches(tbl, account) == account \in DOMAIN tbl
ActiveAccountMatches(tbl, account) == account \in DOMAIN tbl /\ tbl[account].is_active

\* mailTo is the address resetPasswordForEmail was called with, NullId when it
\* was not called; mailOk is whether the identity provider sent the message
ResetRoute(account, userType, rl, bodyOk, mailOk) ==
    LET tbl == IF userType = "admin" THEN admin_users ELSE clients
        refuse(e, logs) == [status |-> e.status, message |-> e.error, mailTo |-> NullId,
                            delivered |-> FALSE, logs |-> logs] IN
    IF ~bodyOk THEN refuse(InternalError, security_logs)
    ELSE IF ~rl
    THEN refuse(RateLimitError,
                logSecurityEvent(security_logs, "rate_limit_exceeded", NullId, "warning"))
    ELSE IF ~ActiveAccountMatches(tbl, account)
    THEN [status |-> 200, message |-> ResetSuccessMsg, mailTo |-> NullId,
          delivered |-> FALSE,
          logs |-> logSecurityEvent(security_logs, "password_reset_request", NullId, "info")]
    ELSE [status |-> 200, message |-> ResetSuccessMsg, mailTo |-> account,
          delivered |-> mailOk,
          logs |-> logSecurityEvent(security_logs, "password_reset_request", account,
                                    "info")]

RequestReset(account, userType, rl, bodyOk, mailOk) ==
    LET out == ResetRoute(account, userType, rl, bodyOk, mailOk) IN
    /\ security_logs' = out.logs
    /\ resp' = [op |-> "password_reset", account |-> account, userType |-> userType,
                limited |-> ~rl, bodyOk |-> bodyOk, status |-> out.status,
                message |-> out.message, mailTo |-> out.mailTo,
                delivered |-> out.delivered]
    /\ UNCHANGED <<now, ticks, tokenVars, acctVars, siteVars, contentVars,
                   keySeq, retiredKeys, auth_users, loginVars>>

ResetEmails == {"a1", "c1", StrangerId}
ResetRequests == {[rl |-> TRUE, bodyOk |-> TRUE, mailOk |-> TRUE],
                  [rl |-> TRUE, bodyOk |-> TRUE, mailOk |-> FALSE],
                  [rl |-> FALSE, bodyOk |-> TRUE, mailOk |-> TRUE],
                  [rl |-> TRUE, bodyOk |-> FALSE, mailOk |-> TRUE]}

ResetNext ==
    \/ \E a \in ResetEmails, ut \in UserTypes, q \in ResetRequests :
          RequestReset(a, ut, q.rl, q.bodyOk, q.mailOk)
    \/ \E b \in BOOLEAN : SetClientActive("c1", b)

SpecReset == LoginInit /\ [][ResetNext]_vars

C19_SecurityRejectionsLogged ==
    (resp.op \in ItemMutations \cup {"get_item"} /\ resp.status \in {401, 429}) =>
        \E ev \in security_logs :
            IF resp.status = 429 THEN ev.event_type = "rate_limit_exceeded"
            ELSE ev.event_type \in {"invalid_token", "login_failure", "permission_denied"}

\* ------------------------------------------------------------------------
\* Login while the rate-limit counter service is down
\* ------------------------------------------------------------------------
OutageNext ==
    \E a \in LoginAccounts, ut \in UserTypes, pw \in BOOLEAN, ip \in Ips :
        Login(a, ut, pw, ip, FALSE, TRUE)

SpecOutage == LoginInit /\ [][OutageNext]_vars

\* C20: while the rate-limit counter service fails, rateLimit reports success,
\* so no guarded request is answered 429 and none is counted; the failed-login
\* counter and the lockout go on working: after five failed logins in a row
\* the Client is locked.
C20_OutageFailsOpenLockoutWorks ==
    /\ resp.op = "login" => resp.status # 429
    /\ \A k \in LoginKeys : loginHits[k] = <<>>
    /\ \A c \in ClientIds :
          streak[c] >= LOCK_THRESHOLD =>
              /\ clients[c].failed_login_attempts >= LOCK_THRESHOLD
              /\ clients[c].locked_until > now

\* C21: a request whose body fails schema validation is answered 400 with the
\* validation message, never 500, and changes no stored state; here for the
\* password-reset route.
C21_InvalidBodyIs400 ==
    (resp.op = "password_reset" /\ ~resp.bodyOk) =>
        /\ resp.status = 400
        /\ resp.mailTo = NullId

\* ------------------------------------------------------------------------
\* reorderCollectionItems called on every content of two collections
\* ------------------------------------------------------------------------
OrderItemIds == 1 .. MaxItemIds
OrderPositions == 0 .. (MaxItemIds - 1)
OrderLists == UNION {[1 .. n -> OrderItemIds] : n \in 0 .. MaxReorderLen}

\* every id is an item of k1, an item of k2 or no item at all; sort_order is
\* whatever creations with an explicit sort_order and deletions have left
OrderInit ==
    /\ TokensIdle
    /\ AccountsInit
    /\ LinkedSitesInit
    /\ site_permissions = [s \in SiteIds |-> DefaultPermissions]
    /\ site_content = [s \in SiteIds |->
                         [business_info |-> "v0", text |-> "v0", image |-> "v0",
                          versions |-> 0]]
    /\ collections = [k \in CollectionIds |->
                        [site_id |-> CollectionSite(k), collection_key |-> "menu",
                         can_add |-> TRUE, can_delete |-> TRUE, can_reorder |-> TRUE,
                         max_items |-> 0]]
    /\ itemSeq = MaxItemIds
    /\ \E present \in SUBSET OrderItemIds :
       \E place \in [present -> CollectionIds], pos \in [present -> OrderPositions] :
          collection_items = {[id |-> i, collection_id |-> place[i],
                               sort_order |-> pos[i], is_visible |-> TRUE] : i \in present}

CallReorder(k, ids) ==
    LET out == reorderCollectionItems(collection_items, k, ids) IN
    /\ collection_items' = out.items
    /\ resp' = [op |-> "reorder_call", collection |-> k, ids |-> ids,
                status |-> out.status, error |-> out.error]
    /\ UNCHANGED <<now, ticks, tokenVars, auxVars, acctVars, siteVars, site_permissions,
                   collections, itemSeq, site_content>>

OrderNext == \E k \in CollectionIds, ids \in OrderLists : CallReorder(k, ids)

SpecOrder == OrderInit /\ [][OrderNext]_vars

\* ids lists every item of the set exactly once
IsPermutationOf(ids, idSet) ==
    /\ Len(ids) = Cardinality(idSet)
    /\ {ids[n] : n \in 1 .. Len(ids)} = idSet

\* C22: reorderCollectionItems(collection, ids) with ids a permutation of the
\* collection's item ids leaves the item at (0-based) index i of ids at sort
\* position i; with an id that is not an item of the collection it is refused
\* with a validation error and no sort position changes.
C22_Step ==
    resp'.op = "reorder_call" =>
        LET ids == resp'.ids
            mine == {i.id : i \in ItemsOf(collection_items, resp'.collection)} IN
        /\ IsPermutationOf(ids, mine) =>
              /\ resp'.status = 200
              /\ \A n \in 1 .. Len(ids) :
                    \E i \in collection_items' :
                        i.id = ids[n] /\ i.sort_order = n - 1
                        /\ i.collection_id = resp'.collection
              /\ Cardinality(collection_items') = Cardinality(collection_items)
        /\ (\E n \in 1 .. Len(ids) : ids[n] \notin mine) =>
              /\ resp'.status = 400
              /\ collection_items' = collection_items
C22_ReorderFollowsList == [][C22_Step]_vars
C22_Witness ==
    /\ resp.op = "reorder_call" /\ resp.status = 200 /\ resp.collection = "k1"
    /\ resp.ids = <<2, 1>>
    /\ \A n \in 1 .. 2 : [id |-> resp.ids[n], collection_id |-> "k1", sort_order |-> n - 1,
                          is_visible |-> TRUE] \in collection_items

\* C23: after every reorder that succeeds (a list of at least one id, lists
\* that omit items or repeat an id included) the sort positions of the items
\* of the collection are pairwise distinct and are exactly 0 .. n-1.
C23_PositionsDenseAfterReorder ==
    (resp.op = "reorder_call" /\ resp.status = 200 /\ Len(resp.ids) >= 1) =>
        LET mine == ItemsOf(collection_items, resp.collection) IN
        /\ \A i, j \in mine : i.id # j.id => i.sort_order # j.sort_order
        /\ {i.sort_order : i \in mine} = 0 .. (Cardinality(mine) - 1)

\* C24: the sort position of an item is changed by no operation other than a
\* reorder; a PUT on an item, which needs only can_edit_collections, leaves the
\* item's sort position as it was.
C24_Step ==
    resp'.op # "reorder_items" =>
        \A i \in collection_items, j \in collection_items' :
            i.id = j.id => j.sort_order = i.sort_order
C24_OnlyReorderMovesItems == [][C24_Step]_vars

\* ------------------------------------------------------------------------
\* Site status under client publish, admin site update and archive
\* ------------------------------------------------------------------------
StatusNext ==
    \/ \E i \in ItemActors, q \in EditRequests : Publish(i, OwnSlug(i), q.rl, q.lookupOk, q.bodyOk)
    \/ \E s \in SiteIds, st \in SiteStatuses : SetStatus(s, st)
    \/ \E s \in SiteIds : ArchiveSite(s)

SpecStatus == ItemsInit /\ [][StatusNext]_vars

\* C25: archived is terminal: once the status of a site is archived no
\* operation (client publish, admin site update, archive) changes it to draft
\* or published again.
C25_Step == \A s \in SiteIds : sites[s].status = "archived" => sites'[s].status = "archived"
C25_ArchivedIsTerminal == [][C25_Step]_vars

\* ------------------------------------------------------------------------
\* A route whose security_logs insert may fail
\* ------------------------------------------------------------------------
\* a logSecurityEvent whose failed insert reaches the caller as an exception
logRaising(logs, eventType, userId, severity, insertOk) ==
    [logs |-> IF insertOk THEN logSecurityEvent(logs, eventType, userId, severity) ELSE logs,
     raised |-> ~insertOk]

\* logSecurityEvent with its try/catch: the insert adds the row or fails (an
\* error result or an exception), and neither reaches the caller
logSecurityEventTry(logs, eventType, userId, severity, insertOk) ==
    [logs |-> IF insertOk THEN logSecurityEvent(logs, eventType, userId, severity) ELSE logs,
     raised |-> FALSE]

\* POST /api/auth/password/reset with the outcome of each awaited
\* logSecurityEvent: an exception out of it would end in the catch of the route
ResetRouteLogging(account, userType, rl, mailOk, insertOk) ==
    LET tbl == IF userType = "admin" THEN admin_users ELSE clients
        found == ActiveAccountMatches(tbl, account)
        log == IF ~rl
               THEN logSecurityEventTry(security_logs, "rate_limit_exceeded", NullId,
                                        "warning", insertOk)
               ELSE logSecurityEventTry(security_logs, "password_reset_request",
                                        IF found THEN account ELSE NullId, "info", insertOk)
        reply(status, message) ==
            [status |-> status, message |-> message,
             mailTo |-> IF rl /\ found THEN account ELSE NullId,
             delivered |-> rl /\ found /\ mailOk, logs |-> log.logs] IN
    IF log.raised THEN reply(InternalError.status, InternalError.error)
    ELSE IF ~rl THEN reply(RateLimitError.status, RateLimitError.error)
    ELSE reply(200, ResetSuccessMsg)

RequestResetLogging(account, userType, rl, mailOk, insertOk) ==
    LET out == ResetRouteLogging(account, userType, rl, mailOk, insertOk) IN
    /\ security_logs' = out.logs
    /\ resp' = [op |-> "password_reset_log", account |-> account, userType |-> userType,
                limited |-> ~rl, mailOk |-> mailOk, insertOk |-> insertOk,
                status |-> out.status, message |-> out.message, mailTo |-> out.mailTo,
                delivered |-> out.delivered]
    /\ UNCHANGED <<now, ticks, tokenVars, acctVars, siteVars, contentVars,
                   keySeq, retiredKeys, auth_users, loginVars>>

LoggingNext ==
    \/ \E a \in ResetEmails, ut \in UserTypes, rl, mailOk, insertOk \in BOOLEAN :
          RequestResetLogging(a, ut, rl, mailOk, insertOk)
    \/ \E b \in BOOLEAN : SetClientActive("c1", b)

SpecLogging == LoginInit /\ [][LoggingNext]_vars

\* C26: logSecurityEvent never raises: when the insert into security_logs fails
\* the route goes on and gives the response, and leaves the stored state, it
\* gives when the insert succeeds; only the log row is missing.
C26_Step ==
    (resp'.op = "password_reset_log" /\ ~resp'.insertOk) =>
        LET ok == ResetRoute(resp'.account, resp'.userType, ~resp'.limited, TRUE,
                             resp'.mailOk) IN
        /\ resp'.status = ok.status /\ resp'.message = ok.message
        /\ resp'.mailTo = ok.mailTo /\ resp'.delivered = ok.delivered
        /\ resp'.status # InternalError.status
        /\ security_logs' = security_logs
        /\ UNCHANGED <<tokenVars, acctVars, siteVars, contentVars>>
C26_LoggingNeverRaises == [][C26_Step]_vars
C26_Witness ==
    /\ resp.op = "password_reset_log" /\ ~resp.insertOk
    /\ resp.mailTo = "c1" /\ resp.status = 200
    /\ security_logs = {}

\* ------------------------------------------------------------------------
\* incrementFailedLoginAttempts under concurrency: its select and its update
\* are separate awaits, so those of two failed attempts interleave
\* ------------------------------------------------------------------------
\* select failed_login_attempts from clients where id = userId
IncrementRead(p, c) ==
    /\ incr[p].pc = "idle"
    /\ streak[c] < MaxFails
    /\ incr' = [incr EXCEPT ![p] =
                  [pc |-> "write", userId |-> c,
                   attempts |-> clients[c].failed_login_attempts + 1]]
    /\ streak' = [streak EXCEPT ![c] = @ + 1]
    /\ resp' = [op |-> "increment_read", call |-> p, account |-> c]
    /\ UNCHANGED <<now, ticks, tokenVars, acctVars, siteVars, contentVars,
                   keySeq, retiredKeys, auth_users, security_logs, loginHits>>

\* update clients set failed_login_attempts = attempts, locked_until = ...
IncrementWrite(p) ==
    /\ incr[p].pc = "write"
    /\ LET c == incr[p].userId
           attempts == incr[p].attempts
           lockedUntil == IF attempts >= LOCK_THRESHOLD THEN now + LOCK_MS ELSE NullTime IN
         /\ clients' = [clients EXCEPT ![c].failed_login_attempts = attempts,
                                       ![c].locked_until = lockedUntil]
         /\ resp' = [op |-> "increment_write", call |-> p, account |-> c,
                     attempts |-> attempts]
    /\ incr' = [incr EXCEPT ![p] = NoIncrement]
    /\ UNCHANGED <<now, ticks, tokenVars, admin_users, siteVars, contentVars,
                   keySeq, retiredKeys, auth_users, security_logs, loginHits, streak>>

IncrementNext ==
    \/ \E p \in Calls, c \in LoginAccounts : IncrementRead(p, c)
    \/ \E p \in Calls : IncrementWrite(p)

SpecIncrement == LoginInit /\ [][IncrementNext]_vars

\* C27: once five failed Client logins with no successful login between them
\* have been processed, failed_login_attempts is 5 or more and the account is
\* locked, in every interleaving of the reads and writes of
\* incrementFailedLoginAttempts: no increment is lost.
C27_NoLostIncrement ==
    \A c \in LoginAccounts :
        (streak[c] >= LOCK_THRESHOLD /\ \A p \in Calls : incr[p].pc = "idle") =>
            /\ clients[c].failed_login_attempts >= LOCK_THRESHOLD
            /\ clients[c].locked_until # NullTime

\* ------------------------------------------------------------------------
\* Logout while rotations of the refresh route are under way
\* ------------------------------------------------------------------------
LogoutConcNext ==
    \/ \E u \in SessionUsers : Login(u, UserTypeOf(u), TRUE, "ip1", TRUE, TRUE)
    \/ \E c \in Calls, t \in TokenValues : RotateBegin(c, t)
    \/ \E c \in Calls : RotateRevoke(c)
    \/ \E c \in Calls : RotateInsert(c)
    \/ \E i \in SessionUsers : Logout(i)

SpecLogoutConc == LoginInit /\ [][LogoutConcNext]_vars

\* C28: when a logout of principal P has completed, P has not logged in since
\* and no request is under way any more, P has no unrevoked refresh token, also
\* when a rotation of one of P's tokens was under way while the logout ran.
C28_NoLiveTokenAfterLogout ==
    (/\ resp.op = "logout" /\ resp.status = 200
     /\ \A c \in Calls : rot[c].pc \in {"idle", "done"}) =>
        \A r \in refresh_tokens :
            (r.user_id = resp.actor /\ r.user_type = resp.type) => r.revoked_at # NullTime

\* C29: the refresh route rotates before it looks at the principal: when a
\* valid token is presented and the request is refused because the principal
\* is deactivated or locked, the presented token has been revoked and exactly
\* one new unrevoked row of that principal has been inserted, whose secret the
\* response does not carry; the token store is not as it was.
C29_Step ==
    (resp'.op = "refresh" /\ resp'.status = 403) =>
        LET rec == RotateRead(refresh_tokens, resp'.presented, now)
            added == {r \in refresh_tokens' : \A q \in refresh_tokens : q.id # r.id} IN
        /\ rec # NoRow
        /\ \E q \in refresh_tokens' : q.id = rec.id /\ q.revoked_at # NullTime
        /\ RotateRead(refresh_tokens', resp'.presented, now') = NoRow
        /\ Cardinality(added) = 1
        /\ \A r \in added : /\ r.user_id = rec.user_id /\ r.user_type = rec.user_type
                            /\ r.revoked_at = NullTime
                            /\ RotateRead(refresh_tokens', r.id, now') # NoRow
        /\ resp'.token = 0
        /\ refresh_tokens' # refresh_tokens
C29_RefusedRefreshStillRotates == [][C29_Step]_vars
C29_Witness ==
    /\ resp.op = "refresh" /\ resp.status = 403
    /\ resp.error = "Account is temporarily locked"
    /\ \E r \in refresh_tokens : r.id = resp.presented /\ r.revoked_at # NullTime
    /\ \E r \in refresh_tokens : r.user_id = "c1" /\ r.revoked_at = NullTime

\* C30: once failed_login_attempts has reached 5, every further Client login
\* with a wrong password that is answered by the credential check (401), while
\* the account is locked or after the lock has expired, adds one to the
\* counter, sets locked_until to 15 minutes after the attempt and logs
\* account_locked.
C30_Step ==
    (/\ resp'.op = "login" /\ resp'.userType = "client" /\ resp'.account \in ClientIds
     /\ ~resp'.passwordOk /\ resp'.status = 401
     /\ clients[resp'.account].failed_login_attempts >= LOCK_THRESHOLD) =>
        LET c == resp'.account IN
        /\ clients'[c].failed_login_attempts = clients[c].failed_login_attempts + 1
        /\ clients'[c].locked_until = now' + LOCK_MS
        /\ [event_type |-> "account_locked", user_id |-> c, severity |-> "critical"]
              \in security_logs'
C30_FailureAfterLockRelocks == [][C30_Step]_vars

====
